---------------------------- MODULE Spec2Model ----------------------------
(***************************************************************************)
(* State-machine model of the deco-scraper crawl core:                     *)
(*   - FirstDibsAdapter.retry            (adapters/retailers/firstdibs-adapter.js) *)
(*   - FirstDibsAdapter.processProductsWithConcurrency (same file)         *)
(*   - FurnitureScraper constructor and run / index.js main                *)
(*     (unnamed/part_001, index.js), up to two consecutive runs            *)
(*   - the link collectors: extractProductLinks (scrape-me.js,             *)
(*     test-1stdibs.js, unnamed/part_003), getAllProductLinksFromCategory  *)
(* Each component has its own variables, initial predicate and next-state  *)
(* relation; a component that is not running sits in its Idle state.      *)
(***************************************************************************)
EXTENDS Integers, Sequences, FiniteSets, Bags, TLC

(* ----------------------------- bounds --------------------------------- *)
\* Largest number of product links scrape-me.js processes.
MaxTestProducts == 6
\* Length of the longest productUrls list handed to the pipeline.
NumUrls == 2
\* Largest worker budget the pipeline / the scraper is constructed with.
MaxConcurrency == 2
\* Largest explicit `retries` argument passed to retry().
MaxRetries == 3
\* Largest number of consecutive failures of fn before it succeeds.
MaxFails == 3
\* Saturation point of the counter of fn invocations made by retry().
MaxCalls == 5
\* Number of distinct product URLs a category listing can show.
NumLinks == 2
\* Number of pages of the longest category listing.
MaxListingPages == 3
\* Saturation point of the currentPage counter of getAllProductLinksFromCategory.
MaxPageCounter == 4
\* Largest number of product links test-1stdibs.js hands to the pipeline.
MaxProductLinks == 11

VARIABLES
  \* ---- FirstDibsAdapter.retry ----
  rPc,          \* "idle" | "call" | "await" | "delay" | "returned" | "threw"
  rArg,         \* the `retries` argument of the outermost call (JS value)
  rRetries,     \* `retries` of the current (recursive) activation
  rFails,       \* failures fn still has in store: a number, or -1 for "always"
  rCalls,       \* number of fn() invocations so far (saturates at MaxCalls)
  \* ---- processProductsWithConcurrency ----
  pipePc,       \* "idle" | "called" | "running" | "returned" | "rejected"
  concurrency,  \* this.concurrency
  productUrls,  \* the productUrls argument
  maxProducts,  \* options.maxProducts
  uPc,          \* position of each unit (index -> pc)
  uRetries,     \* `retries` of the page.goto retry of each unit, while it runs
  uError,       \* whether the unit's async function has a pending exception
  openContexts, \* indexes whose browser context is open
  openPages,    \* indexes whose page is open
  successCount,
  failureCount,
  completedCount,
  results,      \* the `results` array (records, in push order)
  cbCalls,      \* index -> sequence of outcome callbacks invoked for it
  progressLog,  \* progressInfo objects passed to onProgress, in call order
  transformOrder, \* indexes in the order their transform completed (history)
  cbRaised,     \* whether some callback has raised (history)
  returned,     \* the list the pipeline returned
  \* ---- FurnitureScraper.run / index.js main ----
  runPc,        \* "idle" | "start" | "launch" | "collect" | "units" | "save"
                \* | "close" | "returned" | "rejected"
  entry,        \* "run" (FurnitureScraper.run) | "main" (index.js main)
  categoryUrl,  \* "url" | "none": config.categoryUrl, else the first adapter category
  maxConcurrentRequests,
  cacheFile,    \* content of the cache file
  loadedCache,  \* the Set loadCache() returned at run start (history)
  crawledCache, \* the in-memory Set crawledCache (insertion order)
  productLinks, \* the array getAllProductLinksFromCategory returned
  stats,        \* totalProducts, successCount, errorCount, skippedCount
  kPc,          \* position of each product unit (position in productLinks -> pc)
  productPages, \* units whose product page is open
  pagesOpened,  \* URLs for which context.newPage() was called by a unit (history)
  extractCalls, \* URLs passed to extractProductData (history)
  inserts,      \* URL -> results of the storage inserts made for it (history)
  runError,     \* whether the run has a pending exception
  browserOpen,  \* whether the launched browser is open
  retailer,     \* config.retailer: "known" (a supported retailer) | "unknown"
  configMax,    \* config.maxConcurrentRequests / MAX_CONCURRENT_REQUESTS as given
  engine,       \* "none" | "called" | "launched": chromium.launch (history)
  cacheWritten, \* whether fs.writeFile was called on the cache file (history)
  erroredUrls,  \* URLs for which errorCount was incremented in this run (history)
  runNo,        \* 1 | 2: which of two consecutive runs is in progress
  prevSuccess,  \* URLs the previous run counted as a success
  prevError,    \* URLs the previous run counted as an error
  \* ---- the link collectors (extractProductLinks, getAllProductLinksFromCategory) ----
  lPc,          \* "idle" | "first" | "reload" | "next" | "extract" | "returned" | "rejected"
  collector,    \* which collector runs: "scrape-me" | "test-1stdibs" | "sequential" | "category"
  maxPages,     \* the maxPages argument
  allLinks,     \* the allLinks array / the productLinks Set (insertion order)
  currentPage,
  hasNextPage,
  retryCount,
  navigationRetryCount,
  uniqueLinks,  \* the list the collector returned
  found,        \* URLs in the lists the adapter's extraction returned (history)
  pagesExtracted, \* pages whose extracted list was accumulated (history)
  extractAttempts, \* extractProductLinksFromCategory calls (history)
  nextCalls,    \* goToNextPage calls (history)
  advances,     \* goToNextPage calls that returned true (history)
  falseAt,      \* page on which goToNextPage first returned false, 0 if none (history)
  adapterRaised, \* whether an adapter or page call has raised (history)
  \* ---- AdapterFactory.getAdapter and direct calls on what it returned ----
  aPc,          \* "idle" | "start" | "ready" | "called" | "unsupported"
  retailerId,   \* the retailer argument of getAdapter, a sequence of characters
  adapter,      \* the class of the adapter getAdapter returned, NoAdapter if none
  factoryError, \* the Error getAdapter threw, NoError if none
  lastCall,     \* the latest call made on the adapter or on loadCache, and its outcome
  \* ---- getAllProductLinksFromCategory driving a page session ----
  cPc,          \* "idle" | "extract" | "next" | "returned" | "rejected"
  sitePages,    \* number of pages of the category listing
  sessionPage,  \* the listing page the browser page shows, 0 before any navigation
  cProductLinks, \* the productLinks Set (insertion order)
  cHasNextPage,
  cCurrentPage,
  advancedTo,   \* the listing page the loop has advanced to (history)
  extractedPage, \* the listing page the latest extraction read, 0 if none (history)
  cResult,      \* the list getAllProductLinksFromCategory returned
  \* ---- test-1stdibs.js: the pipeline's callbacks and the all_products files ----
  tPc,          \* "idle" | "pipeline" | "finalArray" | "finalObject" | "done"
  tQueued,      \* units the limiter has not started
  tRunning,     \* units that are extracting
  tCallbacks,   \* onSuccess callbacks awaiting the product-file and log writes
  arrayWrites,  \* bag of the texts being written to all_products.json by interim saves
  tObjectWrites, \* interim saves awaiting the write of all_products_object.json
  allScrapedProducts,
  scrapedProducts, \* the results array of the pipeline
  lastSaveCount,
  allProductsFile, \* the content of all_products.json
  finalSnapshot, \* the text the final save is writing
  interimSaved, \* lengths of the lists onSuccess called saveAllProductsFiles with (history)
  \* ---- scrape-me.js: the product loop and progress_all_products.json ----
  smTotal,      \* testProducts.length
  smUnit,       \* per unit: "queued" | "setup" | "extract" | "closing" | "writing" | "done" | "rejected"
  smSuccessCount,
  smFailureCount,
  smPending,    \* per unit: the progress record its fs.writeFile is writing
  progressFile, \* the content of progress_all_products.json (<<>>: no file)
  progressWrites \* the records written, each with the units finished when it was built (history)

retryVars == <<rPc, rArg, rRetries, rFails, rCalls>>
pipeVars == <<pipePc, concurrency, productUrls, maxProducts, uPc, uRetries, uError,
              openContexts, openPages, successCount, failureCount, completedCount,
              results, cbCalls, progressLog, transformOrder, cbRaised, returned>>
runVars == <<runPc, entry, categoryUrl, maxConcurrentRequests, cacheFile, loadedCache,
             crawledCache, productLinks, stats, kPc, productPages, pagesOpened,
             extractCalls, inserts, runError, browserOpen, retailer, configMax,
             engine, cacheWritten, erroredUrls, runNo, prevSuccess, prevError>>
linkVars == <<lPc, collector, maxPages, allLinks, currentPage, hasNextPage, retryCount,
              navigationRetryCount, uniqueLinks, found, pagesExtracted,
              extractAttempts, nextCalls, advances, falseAt, adapterRaised>>
adapterVars == <<aPc, retailerId, adapter, factoryError, lastCall>>
categoryVars == <<cPc, sitePages, sessionPage, cProductLinks, cHasNextPage, cCurrentPage,
                  advancedTo, extractedPage, cResult>>
scriptVars == <<tPc, tQueued, tRunning, tCallbacks, arrayWrites, tObjectWrites,
                allScrapedProducts, scrapedProducts, lastSaveCount, allProductsFile,
                finalSnapshot, interimSaved>>
progressVars == <<smTotal, smUnit, smSuccessCount, smFailureCount, smPending,
                  progressFile, progressWrites>>
vars == <<retryVars, pipeVars, runVars, linkVars, adapterVars, categoryVars, scriptVars,
          progressVars>>

\* What the steps of one component leave alone.
notRetryVars == <<pipeVars, runVars, linkVars, adapterVars, categoryVars, scriptVars, progressVars>>
notPipeVars == <<retryVars, runVars, linkVars, adapterVars, categoryVars, scriptVars, progressVars>>
notRunVars == <<retryVars, pipeVars, linkVars, adapterVars, categoryVars, scriptVars, progressVars>>
notLinkVars == <<retryVars, pipeVars, runVars, adapterVars, categoryVars, scriptVars, progressVars>>
notAdapterVars == <<retryVars, pipeVars, runVars, linkVars, categoryVars, scriptVars, progressVars>>
notCategoryVars == <<retryVars, pipeVars, runVars, linkVars, adapterVars, scriptVars, progressVars>>
notScriptVars == <<retryVars, pipeVars, runVars, linkVars, adapterVars, categoryVars, progressVars>>
notProgressVars == <<retryVars, pipeVars, runVars, linkVars, adapterVars, categoryVars, scriptVars>>

(* ------------------------- generic helpers ---------------------------- *)
Range(s) == {s[i] : i \in 1..Len(s)}

Min(a, b) == IF a <= b THEN a ELSE b

\* Array.prototype.slice(0, n) for n >= 0.
Slice(s, n) == SubSeq(s, 1, Min(n, Len(s)))

(* -------------------- JavaScript number values ------------------------ *)
\* A JS value that is either undefined, NaN or an integer.
JsUndefined == [t |-> "undefined", n |-> 0]
JsNaN == [t |-> "NaN", n |-> 0]
JsNum(k) == [t |-> "num", n |-> k]

\* ToNumber(v) <= 1: false for undefined (-> NaN) and for NaN.
JsLeqOne(v) == v.t = "num" /\ v.n <= 1

\* v - 1: NaN for undefined and NaN.
JsMinusOne(v) == IF v.t = "num" THEN JsNum(v.n - 1) ELSE JsNaN

(* ==================== FirstDibsAdapter.retry ========================== *)
\* this.retryAttempts: the constructor never assigns it.
RetryAttempts == JsUndefined

\* The default-parameter rule: an omitted (undefined) argument takes the default.
RetryDefaultArg(arg) == IF arg.t = "undefined" THEN RetryAttempts ELSE arg

\* `if (retries <= 1) throw error;`
RetryGivesUp(retries) == JsLeqOne(retries)

\* `this.retry(fn, retries - 1, delayMs)`
RetryNextBudget(retries) == JsMinusOne(retries)

RetryIdle ==
  /\ rPc = "idle"
  /\ rArg = JsUndefined
  /\ rRetries = JsUndefined
  /\ rFails = 0
  /\ rCalls = 0

\* retry(fn) or retry(fn, k): fn fails rFails times in a row (-1: always).
RetryInit ==
  /\ rPc = "call"
  /\ rArg \in {JsUndefined} \cup {JsNum(k) : k \in 0..MaxRetries}
  /\ rRetries = RetryDefaultArg(rArg)
  /\ rFails \in (0..MaxFails) \cup {-1}
  /\ rCalls = 0

\* `return await fn();`: fn is invoked.
RetryInvoke ==
  /\ rPc = "call"
  /\ rPc' = "await"
  /\ rCalls' = Min(rCalls + 1, MaxCalls)
  /\ UNCHANGED <<rArg, rRetries, rFails>>
  /\ UNCHANGED notRetryVars

\* fn() resolves: retry returns its value.
RetryFnResolves ==
  /\ rPc = "await"
  /\ rFails = 0
  /\ rPc' = "returned"
  /\ UNCHANGED <<rArg, rRetries, rFails, rCalls>>
  /\ UNCHANGED notRetryVars

\* fn() rejects: rethrow when the budget is spent, otherwise wait.
RetryFnRejects ==
  /\ rPc = "await"
  /\ rFails # 0
  /\ rFails' = IF rFails = -1 THEN -1 ELSE rFails - 1
  /\ rPc' = IF RetryGivesUp(rRetries) THEN "threw" ELSE "delay"
  /\ UNCHANGED <<rArg, rRetries, rCalls>>
  /\ UNCHANGED notRetryVars

\* `await this.delay(delayMs); return this.retry(fn, retries - 1, delayMs);`
RetryDelayElapsed ==
  /\ rPc = "delay"
  /\ rRetries' = RetryNextBudget(rRetries)
  /\ rPc' = "call"
  /\ UNCHANGED <<rArg, rFails, rCalls>>
  /\ UNCHANGED notRetryVars



(* ============ FirstDibsAdapter.processProductsWithConcurrency ========= *)
\* A value of maxProducts no list is longer than (the default, Infinity).
Infinity == NumUrls + 1

\* `productUrls.slice(0, maxProducts)`
urlsToProcess == Slice(productUrls, maxProducts)

Units == 1..Len(urlsToProcess)

\* Mutant of ProductNumber: the 0-based map index is passed on.
ProductNumberZeroBased(u) == u - 1

\* `const productNumber = index + 1;` for the unit at 1-based position u.
ProductNumber(u) == u

\* The StandardProductRecord transformProductData builds for a product URL.
TransformedData(url) == [retailer |-> "1stDibs", url |-> url]

\* The value null, in the shape of a product record.
JsNull == [retailer |-> "null", url |-> 0]

\* Boolean(x) of an entry of `results`: every object is truthy, null is not.
Truthy(x) == x # JsNull

\* `results.filter(Boolean)`
FilterBoolean(s) == SelectSeq(s, Truthy)

\* `results.push(transformedData)`
ResultsPush(s, rec) == Append(s, rec)

\* Units holding a slot of the limiter: started and not yet settled.
ActiveUnits == {u \in Units : uPc[u] \notin {"queued", "done"}}

\* pLimit(n) throws a TypeError unless n is an integer from 1 up.
PLimitAccepts(n) == n >= 1

\* pLimit(n): a queued function is started only while fewer than n are running.
LimitAdmits(active, n) == active < n

\* pLimit queues are FIFO: the next function to start is the oldest one queued.
NextQueued(u) == uPc[u] = "queued" /\ \A v \in Units : v < u => uPc[v] # "queued"

PipeIdle ==
  /\ pipePc = "idle"
  /\ concurrency = 0
  /\ productUrls = <<>>
  /\ maxProducts = 0
  /\ uPc = <<>>
  /\ uRetries = <<>>
  /\ uError = <<>>
  /\ openContexts = {}
  /\ openPages = {}
  /\ successCount = 0
  /\ failureCount = 0
  /\ completedCount = 0
  /\ results = <<>>
  /\ cbCalls = <<>>
  /\ progressLog = <<>>
  /\ transformOrder = <<>>
  /\ cbRaised = FALSE
  /\ returned = <<>>

\* processProductsWithConcurrency is called on an adapter built with any
\* concurrency, with a list of 0..NumUrls distinct URLs (URL k at position
\* n + 1 - k) and maxProducts the default or an explicit cut.
PipeInit ==
  /\ pipePc = "called"
  /\ concurrency \in -1..MaxConcurrency
  /\ \E n \in 0..NumUrls : productUrls = [i \in 1..n |-> n + 1 - i]
  /\ maxProducts \in {Infinity, NumUrls - 1}
  /\ uPc = [u \in Units |-> "queued"]
  /\ uRetries = [u \in Units |-> JsUndefined]
  /\ uError = [u \in Units |-> FALSE]
  /\ openContexts = {}
  /\ openPages = {}
  /\ successCount = 0
  /\ failureCount = 0
  /\ completedCount = 0
  /\ results = <<>>
  /\ cbCalls = [u \in Units |-> <<>>]
  /\ progressLog = <<>>
  /\ transformOrder = <<>>
  /\ cbRaised = FALSE
  /\ returned = <<>>

\* `failureCount++; await onFailure(url, message, productNumber);`
CountFailure(u, msg) ==
  /\ failureCount' = failureCount + 1
  /\ cbCalls' = [cbCalls EXCEPT ![u] = Append(@,
        [cb |-> "onFailure", url |-> urlsToProcess[u], msg |-> msg,
         index |-> ProductNumber(u)])]
  /\ uPc' = [uPc EXCEPT ![u] = "onFailure"]

\* `completedCount++; ... await onProgress(progressInfo, productNumber);`
ReportProgress(u) ==
  /\ completedCount' = completedCount + 1
  /\ progressLog' = Append(progressLog,
        [total |-> Len(urlsToProcess), completed |-> completedCount + 1,
         success |-> successCount, failure |-> failureCount])
  /\ uPc' = [uPc EXCEPT ![u] = "onProgress"]

\* Entry of the finally block: close the page if there is one, then the
\* context if there is one, then report progress.
EnterFinally(u) ==
  IF u \in openPages
    THEN uPc' = [uPc EXCEPT ![u] = "closePage"] /\ UNCHANGED <<completedCount, progressLog>>
    ELSE IF u \in openContexts
      THEN uPc' = [uPc EXCEPT ![u] = "closeContext"] /\ UNCHANGED <<completedCount, progressLog>>
      ELSE ReportProgress(u)

\* `const limit = pLimit(this.concurrency);` returned a limiter; the URLs are
\* sliced and every unit is queued on the limiter.
PipelineSetup ==
  /\ pipePc = "called"
  /\ PLimitAccepts(concurrency)
  /\ pipePc' = "running"
  /\ UNCHANGED <<concurrency, productUrls, maxProducts, uPc, uRetries, uError,
                 openContexts, openPages, successCount, failureCount, completedCount,
                 results, cbCalls, progressLog, transformOrder, cbRaised, returned>>
  /\ UNCHANGED notPipeVars

\* pLimit threw: the async function rejects before any URL is looked at.
PipelineBudgetRejected ==
  /\ pipePc = "called"
  /\ ~PLimitAccepts(concurrency)
  /\ pipePc' = "rejected"
  /\ UNCHANGED <<concurrency, productUrls, maxProducts, uPc, uRetries, uError,
                 openContexts, openPages, successCount, failureCount, completedCount,
                 results, cbCalls, progressLog, transformOrder, cbRaised, returned>>
  /\ UNCHANGED notPipeVars

\* The limiter starts the unit: it sleeps for its random delay and then
\* issues `context = await browser.newContext(...)`.
StartUnit(u) ==
  /\ pipePc # "called"
  /\ NextQueued(u)
  /\ LimitAdmits(Cardinality(ActiveUnits), concurrency)
  /\ uPc' = [uPc EXCEPT ![u] = "newContext"]
  /\ UNCHANGED <<pipePc, concurrency, productUrls, maxProducts, uRetries, uError,
                 openContexts, openPages, successCount, failureCount, completedCount,
                 results, cbCalls, progressLog, transformOrder, cbRaised, returned>>
  /\ UNCHANGED notPipeVars

\* newContext resolved: the context is open, `page = await context.newPage()`.
NewContextResolves(u) ==
  /\ uPc[u] = "newContext"
  /\ openContexts' = openContexts \cup {u}
  /\ uPc' = [uPc EXCEPT ![u] = "newPage"]
  /\ UNCHANGED <<pipePc, concurrency, productUrls, maxProducts, uRetries, uError,
                 openPages, successCount, failureCount, completedCount,
                 results, cbCalls, progressLog, transformOrder, cbRaised, returned>>
  /\ UNCHANGED notPipeVars

\* Mutant of NewContextRejects: the context is created outside the try
\* statement, so the rejection escapes the unit.
NewContextRejectsUncaught(u) ==
  /\ uPc[u] = "newContext"
  /\ uPc' = [uPc EXCEPT ![u] = "done"]
  /\ uError' = [uError EXCEPT ![u] = TRUE]
  /\ UNCHANGED <<pipePc, concurrency, productUrls, maxProducts, uRetries,
                 openContexts, openPages, successCount, failureCount, completedCount,
                 results, cbCalls, progressLog, transformOrder, cbRaised, returned>>
  /\ UNCHANGED notPipeVars

\* newContext rejected: the catch block counts a failure.
NewContextRejects(u) ==
  /\ uPc[u] = "newContext"
  /\ CountFailure(u, "error")
  /\ UNCHANGED <<pipePc, concurrency, productUrls, maxProducts, uRetries, uError,
                 openContexts, openPages, successCount, completedCount,
                 results, progressLog, transformOrder, cbRaised, returned>>
  /\ UNCHANGED notPipeVars

\* newPage resolved: extractProductData starts with its page.goto retry.
NewPageResolves(u) ==
  /\ uPc[u] = "newPage"
  /\ openPages' = openPages \cup {u}
  /\ uRetries' = [uRetries EXCEPT ![u] = RetryDefaultArg(JsUndefined)]
  /\ uPc' = [uPc EXCEPT ![u] = "goto"]
  /\ UNCHANGED <<pipePc, concurrency, productUrls, maxProducts, uError,
                 openContexts, successCount, failureCount, completedCount,
                 results, cbCalls, progressLog, transformOrder, cbRaised, returned>>
  /\ UNCHANGED notPipeVars

\* newPage rejected: the catch block counts a failure (the context stays set).
NewPageRejects(u) ==
  /\ uPc[u] = "newPage"
  /\ CountFailure(u, "error")
  /\ UNCHANGED <<pipePc, concurrency, productUrls, maxProducts, uRetries, uError,
                 openContexts, openPages, successCount, completedCount,
                 results, progressLog, transformOrder, cbRaised, returned>>
  /\ UNCHANGED notPipeVars

\* The retry activation of unit u returned or threw: its `retries` is gone.
RetryEnded(u) == [uRetries EXCEPT ![u] = JsUndefined]

\* page.goto rejected inside this.retry: retry rethrows when its budget is
\* spent (extractProductData's catch then returns null, which the pipeline
\* counts as 'Failed to extract data'), and otherwise sleeps.
GotoRejects(u) ==
  /\ uPc[u] = "goto"
  /\ IF RetryGivesUp(uRetries[u])
       THEN /\ CountFailure(u, "Failed to extract data")
            /\ uRetries' = RetryEnded(u)
       ELSE /\ uPc' = [uPc EXCEPT ![u] = "retryDelay"]
            /\ UNCHANGED <<uRetries, failureCount, cbCalls>>
  /\ UNCHANGED <<pipePc, concurrency, productUrls, maxProducts, uError,
                 openContexts, openPages, successCount, completedCount,
                 results, progressLog, transformOrder, cbRaised, returned>>
  /\ UNCHANGED notPipeVars

\* `await this.delay(delayMs); return this.retry(fn, retries - 1, delayMs);`:
\* page.goto is called again.
GotoRetried(u) ==
  /\ uPc[u] = "retryDelay"
  /\ uRetries' = [uRetries EXCEPT ![u] = RetryNextBudget(@)]
  /\ uPc' = [uPc EXCEPT ![u] = "goto"]
  /\ UNCHANGED <<pipePc, concurrency, productUrls, maxProducts, uError,
                 openContexts, openPages, successCount, failureCount, completedCount,
                 results, cbCalls, progressLog, transformOrder, cbRaised, returned>>
  /\ UNCHANGED notPipeVars

\* page.goto resolved, extractProductData returned a raw record and
\* transformProductData accepted it:
\* `successCount++; results.push(transformedData); await onSuccess(...)`.
ExtractAndTransformSucceed(u) ==
  /\ uPc[u] = "goto"
  /\ successCount' = successCount + 1
  /\ results' = ResultsPush(results, TransformedData(urlsToProcess[u]))
  /\ transformOrder' = Append(transformOrder, u)
  /\ cbCalls' = [cbCalls EXCEPT ![u] = Append(@,
        [cb |-> "onSuccess", url |-> TransformedData(urlsToProcess[u]).url,
         msg |-> "", index |-> ProductNumber(u)])]
  /\ uPc' = [uPc EXCEPT ![u] = "onSuccess"]
  /\ uRetries' = RetryEnded(u)
  /\ UNCHANGED <<pipePc, concurrency, productUrls, maxProducts, uError,
                 openContexts, openPages, failureCount, completedCount,
                 progressLog, cbRaised, returned>>
  /\ UNCHANGED notPipeVars

\* extractProductData returned a raw record and transformProductData (of an
\* adapter that rejects some raw records) returned null.
TransformReturnsNull(u) ==
  /\ uPc[u] = "goto"
  /\ CountFailure(u, "Failed to transform data")
  /\ uRetries' = RetryEnded(u)
  /\ UNCHANGED <<pipePc, concurrency, productUrls, maxProducts, uError,
                 openContexts, openPages, successCount, completedCount,
                 results, progressLog, transformOrder, cbRaised, returned>>
  /\ UNCHANGED notPipeVars

\* page.goto resolved and a later step of extractProductData failed: its
\* catch block returned null.
ExtractReturnsNull(u) ==
  /\ uPc[u] = "goto"
  /\ CountFailure(u, "Failed to extract data")
  /\ uRetries' = RetryEnded(u)
  /\ UNCHANGED <<pipePc, concurrency, productUrls, maxProducts, uError,
                 openContexts, openPages, successCount, completedCount,
                 results, progressLog, transformOrder, cbRaised, returned>>
  /\ UNCHANGED notPipeVars

\* extractProductData raised (an adapter whose extraction lets errors escape).
ExtractRaises(u) ==
  /\ uPc[u] = "goto"
  /\ CountFailure(u, "error")
  /\ uRetries' = RetryEnded(u)
  /\ UNCHANGED <<pipePc, concurrency, productUrls, maxProducts, uError,
                 openContexts, openPages, successCount, completedCount,
                 results, progressLog, transformOrder, cbRaised, returned>>
  /\ UNCHANGED notPipeVars

\* onSuccess returned: `return transformedData`, through the finally block.
OnSuccessReturns(u) ==
  /\ uPc[u] = "onSuccess"
  /\ EnterFinally(u)
  /\ UNCHANGED <<pipePc, concurrency, productUrls, maxProducts, uRetries, uError,
                 openContexts, openPages, successCount, failureCount,
                 results, cbCalls, transformOrder, cbRaised, returned>>
  /\ UNCHANGED notPipeVars

\* onSuccess raised: the catch block counts a failure for the same unit.
OnSuccessRaises(u) ==
  /\ uPc[u] = "onSuccess"
  /\ CountFailure(u, "error")
  /\ cbRaised' = TRUE
  /\ UNCHANGED <<pipePc, concurrency, productUrls, maxProducts, uRetries, uError,
                 openContexts, openPages, successCount, completedCount,
                 results, progressLog, transformOrder, returned>>
  /\ UNCHANGED notPipeVars

\* onFailure returned: `return null`, through the finally block.
OnFailureReturns(u) ==
  /\ uPc[u] = "onFailure"
  /\ EnterFinally(u)
  /\ UNCHANGED <<pipePc, concurrency, productUrls, maxProducts, uRetries, uError,
                 openContexts, openPages, successCount, failureCount,
                 results, cbCalls, transformOrder, cbRaised, returned>>
  /\ UNCHANGED notPipeVars

\* onFailure raised: the exception leaves the try statement through finally.
OnFailureRaises(u) ==
  /\ uPc[u] = "onFailure"
  /\ EnterFinally(u)
  /\ uError' = [uError EXCEPT ![u] = TRUE]
  /\ cbRaised' = TRUE
  /\ UNCHANGED <<pipePc, concurrency, productUrls, maxProducts, uRetries,
                 openContexts, openPages, successCount, failureCount,
                 results, cbCalls, transformOrder, returned>>
  /\ UNCHANGED notPipeVars

\* Mutant of AfterPageClose: the finally block closes the page only.
AfterPageCloseOnly(u) == ReportProgress(u)

\* What the finally block does once the page is closed.
AfterPageClose(u) ==
  IF u \in openContexts
    THEN uPc' = [uPc EXCEPT ![u] = "closeContext"] /\ UNCHANGED <<completedCount, progressLog>>
    ELSE ReportProgress(u)

\* `await page.close().catch(...)` settled: the page is gone.
PageClosed(u) ==
  /\ uPc[u] = "closePage"
  /\ openPages' = openPages \ {u}
  /\ AfterPageClose(u)
  /\ UNCHANGED <<pipePc, concurrency, productUrls, maxProducts, uRetries, uError,
                 openContexts, successCount, failureCount,
                 results, cbCalls, transformOrder, cbRaised, returned>>
  /\ UNCHANGED notPipeVars

\* `await context.close().catch(...)` settled: the context is gone; progress
\* is computed and onProgress is called.
ContextClosed(u) ==
  /\ uPc[u] = "closeContext"
  /\ openContexts' = openContexts \ {u}
  /\ ReportProgress(u)
  /\ UNCHANGED <<pipePc, concurrency, productUrls, maxProducts, uRetries, uError,
                 openPages, successCount, failureCount,
                 results, cbCalls, transformOrder, cbRaised, returned>>
  /\ UNCHANGED notPipeVars

\* onProgress returned: the unit's function settles and frees its slot.
OnProgressReturns(u) ==
  /\ uPc[u] = "onProgress"
  /\ uPc' = [uPc EXCEPT ![u] = "done"]
  /\ UNCHANGED <<pipePc, concurrency, productUrls, maxProducts, uRetries, uError,
                 openContexts, openPages, successCount, failureCount, completedCount,
                 results, cbCalls, progressLog, transformOrder, cbRaised, returned>>
  /\ UNCHANGED notPipeVars

\* onProgress raised inside finally: the unit's function rejects.
OnProgressRaises(u) ==
  /\ uPc[u] = "onProgress"
  /\ uPc' = [uPc EXCEPT ![u] = "done"]
  /\ uError' = [uError EXCEPT ![u] = TRUE]
  /\ cbRaised' = TRUE
  /\ UNCHANGED <<pipePc, concurrency, productUrls, maxProducts, uRetries,
                 openContexts, openPages, successCount, failureCount, completedCount,
                 results, cbCalls, progressLog, transformOrder, returned>>
  /\ UNCHANGED notPipeVars

\* Mutant of PipelineReturns: the values Promise.all resolved with (one per
\* unit, in submission order, null for a failed unit) are filtered and returned.
PipelineReturnsUnitValues ==
  /\ pipePc = "running"
  /\ \A u \in Units : uPc[u] = "done" /\ ~uError[u]
  /\ returned' = FilterBoolean([u \in Units |->
         IF cbCalls[u][Len(cbCalls[u])].cb = "onSuccess"
           THEN TransformedData(urlsToProcess[u]) ELSE JsNull])
  /\ pipePc' = "returned"
  /\ UNCHANGED <<concurrency, productUrls, maxProducts, uPc, uRetries, uError,
                 openContexts, openPages, successCount, failureCount, completedCount,
                 results, cbCalls, progressLog, transformOrder, cbRaised>>
  /\ UNCHANGED notPipeVars

\* Mutant of PipelineReturns: a final progress report is made before
\* returning.
PipelineReturnsWithFinalProgress ==
  /\ pipePc = "running"
  /\ \A u \in Units : uPc[u] = "done" /\ ~uError[u]
  /\ returned' = FilterBoolean(results)
  /\ progressLog' = Append(progressLog,
        [total |-> Len(urlsToProcess), completed |-> completedCount,
         success |-> successCount, failure |-> failureCount])
  /\ pipePc' = "returned"
  /\ UNCHANGED <<concurrency, productUrls, maxProducts, uPc, uRetries, uError,
                 openContexts, openPages, successCount, failureCount, completedCount,
                 results, cbCalls, transformOrder, cbRaised>>
  /\ UNCHANGED notPipeVars

\* `await Promise.all(promises)` resolved: `return results.filter(Boolean);`
PipelineReturns ==
  /\ pipePc = "running"
  /\ \A u \in Units : uPc[u] = "done" /\ ~uError[u]
  /\ returned' = FilterBoolean(results)
  /\ pipePc' = "returned"
  /\ UNCHANGED <<concurrency, productUrls, maxProducts, uPc, uRetries, uError,
                 openContexts, openPages, successCount, failureCount, completedCount,
                 results, cbCalls, progressLog, transformOrder, cbRaised>>
  /\ UNCHANGED notPipeVars

\* `await Promise.all(promises)` rejected with the first unit that rejected;
\* the other units keep running.
PipelineRejects ==
  /\ pipePc = "running"
  /\ \E u \in Units : uPc[u] = "done" /\ uError[u]
  /\ pipePc' = "rejected"
  /\ UNCHANGED <<concurrency, productUrls, maxProducts, uPc, uRetries, uError,
                 openContexts, openPages, successCount, failureCount, completedCount,
                 results, cbCalls, progressLog, transformOrder, cbRaised, returned>>
  /\ UNCHANGED notPipeVars

\* One step of unit u, from one await point to the next.
UnitStep(u) ==
  \/ StartUnit(u)
  \/ NewContextResolves(u)
  \/ NewContextRejects(u)
  \/ NewPageResolves(u)
  \/ NewPageRejects(u)
  \/ GotoRejects(u)
  \/ GotoRetried(u)
  \/ ExtractAndTransformSucceed(u)
  \/ TransformReturnsNull(u)
  \/ ExtractReturnsNull(u)
  \/ ExtractRaises(u)
  \/ OnSuccessReturns(u)
  \/ OnSuccessRaises(u)
  \/ OnFailureReturns(u)
  \/ OnFailureRaises(u)
  \/ PageClosed(u)
  \/ ContextClosed(u)
  \/ OnProgressReturns(u)
  \/ OnProgressRaises(u)


(* ============ FurnitureScraper.run and index.js main ================== *)
\* Product URLs a category listing can show.
LinkUrls == 1..NumLinks

\* Longest sequence of links the category pages yield, repeats included.
MaxFeed == NumLinks + 1

\* Set.prototype.has / add on a Set kept in insertion order.
SetHas(set, x) == x \in Range(set)

SetAdd(set, x) == IF SetHas(set, x) THEN set ELSE Append(set, x)

\* `new Set(array)` / `array.forEach(x => set.add(x))`
RECURSIVE SetAddAll(_, _)
SetAddAll(set, array) ==
  IF array = <<>> THEN set ELSE SetAddAll(SetAdd(set, Head(array)), Tail(array))

\* Mutant of UniqueLinks: the links are collected in an array.
UniqueLinksArray(feed) == feed

\* The links of all pages go through `productLinks.add(link)`;
\* `return [...productLinks]`.
UniqueLinks(feed) == SetAddAll(<<>>, feed)

\* Cache file contents: no file, a file that is not JSON, a JSON list of URLs.
FileMissing == [kind |-> "missing", items |-> <<>>]
FileCorrupt == [kind |-> "corrupt", items |-> <<>>]
FileList(items) == [kind |-> "list", items |-> items]
\* Valid JSON that is no list: a string (its characters), a number, an object.
FileString(chars) == [kind |-> "string", items |-> chars]
FileNumber == [kind |-> "number", items |-> <<>>]
FileObject == [kind |-> "object", items |-> <<>>]

\* The ascending list of the URLs of a set.
RECURSIVE AscendingList(_)
AscendingList(S) ==
  IF S = {} THEN <<>>
  ELSE LET m == CHOOSE x \in S : \A y \in S : x <= y
       IN <<m>> \o AscendingList(S \ {m})

\* loadCache: `new Set(JSON.parse(data))`, and `new Set()` from the catch
\* block when readFile, JSON.parse or `new Set` raises. `new Set` iterates
\* its argument: a list gives its elements and a string its characters; a
\* number or a plain object is not iterable and makes it raise.
LoadCache(file) ==
  IF file.kind \in {"list", "string"} THEN SetAddAll(<<>>, file.items) ELSE <<>>

\* Mutant of SaveCache: the Set itself is serialised,
\* `JSON.stringify(cache)`, which gives the text {}.
SaveCacheWithoutSpread(cache) == FileObject

\* saveCache: `fs.writeFile(cacheFile, JSON.stringify([...cache]))`.
SaveCache(cache) == FileList(cache)

\* `maxConcurrentRequests: config.maxConcurrentRequests || 2`
DefaultMaxConcurrentRequests == 2

KUnits == 1..Len(productLinks)

KActive == {i \in KUnits : kPc[i] \notin {"queued", "done"}}

KNextQueued(i) == kPc[i] = "queued" /\ \A j \in KUnits : j < i => kPc[j] # "queued"

\* `stats.successCount++` and the like.
Bump(st, field) == [st EXCEPT ![field] = @ + 1]

\* `console.error(...); stats.errorCount++;` of the unit's catch block.
UnitCatch(st) == Bump(st, "errorCount")

\* The locals of run() before it is entered, and the histories of a run.
RunNotStarted ==
  /\ loadedCache = <<>>
  /\ crawledCache = <<>>
  /\ productLinks = <<>>
  /\ stats = [totalProducts |-> 0, successCount |-> 0, errorCount |-> 0, skippedCount |-> 0]
  /\ kPc = <<>>
  /\ productPages = {}
  /\ pagesOpened = {}
  /\ extractCalls = {}
  /\ inserts = [u \in LinkUrls |-> <<>>]
  /\ runError = FALSE
  /\ browserOpen = FALSE
  /\ engine = "none"
  /\ cacheWritten = FALSE
  /\ erroredUrls = {}

RunIdle ==
  /\ runPc = "idle"
  /\ entry = "run"
  /\ categoryUrl = "none"
  /\ maxConcurrentRequests = 0
  /\ cacheFile = FileMissing
  /\ RunNotStarted
  /\ retailer = "known"
  /\ configMax = 0
  /\ runNo = 1
  /\ prevSuccess = {}
  /\ prevError = {}

\* `new FurnitureScraper(config)` is about to run its constructor, or the
\* index.js script is about to be loaded, with any configuration and any
\* cache file left by an earlier run. index.js has no retailer setting and
\* always has a category URL (DEFAULT_CATEGORY_URL).
RunInit ==
  /\ runPc = "construct"
  /\ entry \in {"run", "main"}
  /\ categoryUrl \in {"url", "none"}
  /\ retailer \in {"known", "unknown"}
  /\ entry = "main" => categoryUrl = "url" /\ retailer = "known"
  /\ configMax \in -1..MaxConcurrency
  /\ maxConcurrentRequests = 0
  /\ cacheFile \in {FileMissing, FileCorrupt}
                     \cup {FileList(AscendingList(S)) : S \in SUBSET LinkUrls}
  /\ RunNotStarted
  /\ runNo = 1
  /\ prevSuccess = {}
  /\ prevError = {}

\* What neither the constructor nor a step of run() changes.
runSetup == <<retailer, configMax, runNo, prevSuccess, prevError>>

\* `config.maxConcurrentRequests || 2`: 0 and undefined take the default.
EffectiveMaxConcurrentRequests(raw) ==
  IF raw = 0 THEN DefaultMaxConcurrentRequests ELSE raw

\* The constructor returns: the limiter is built from the effective budget
\* and AdapterFactory.getAdapter knows the retailer.
ConstructScraper ==
  /\ runPc = "construct"
  /\ entry = "run"
  /\ PLimitAccepts(EffectiveMaxConcurrentRequests(configMax))
  /\ retailer = "known"
  /\ maxConcurrentRequests' = EffectiveMaxConcurrentRequests(configMax)
  /\ runPc' = "start"
  /\ UNCHANGED <<runSetup, erroredUrls, entry, categoryUrl, cacheFile, loadedCache,
                 crawledCache, productLinks, stats, kPc, productPages, pagesOpened,
                 extractCalls, inserts, runError, browserOpen, engine, cacheWritten>>
  /\ UNCHANGED notRunVars

\* The constructor throws: pLimit rejects the budget, or getAdapter throws
\* 'Unsupported retailer' (rethrown as 'Failed to initialize adapter').
ConstructScraperFails ==
  /\ runPc = "construct"
  /\ entry = "run"
  /\ \/ ~PLimitAccepts(EffectiveMaxConcurrentRequests(configMax))
     \/ retailer = "unknown"
  /\ runPc' = "rejected"
  /\ UNCHANGED <<runSetup, erroredUrls, entry, categoryUrl, maxConcurrentRequests,
                 cacheFile, loadedCache,
                 crawledCache, productLinks, stats, kPc, productPages, pagesOpened,
                 extractCalls, inserts, runError, browserOpen, engine, cacheWritten>>
  /\ UNCHANGED notRunVars

\* index.js is loaded: `const limit = pLimit(MAX_CONCURRENT_REQUESTS);` with the
\* parsed environment value, then main() is called.
LoadScript ==
  /\ runPc = "construct"
  /\ entry = "main"
  /\ PLimitAccepts(configMax)
  /\ maxConcurrentRequests' = configMax
  /\ runPc' = "start"
  /\ UNCHANGED <<runSetup, erroredUrls, entry, categoryUrl, cacheFile, loadedCache,
                 crawledCache, productLinks, stats, kPc, productPages, pagesOpened,
                 extractCalls, inserts, runError, browserOpen, engine, cacheWritten>>
  /\ UNCHANGED notRunVars

\* index.js fails to load: pLimit throws at module level.
LoadScriptFails ==
  /\ runPc = "construct"
  /\ entry = "main"
  /\ ~PLimitAccepts(configMax)
  /\ runPc' = "rejected"
  /\ UNCHANGED <<runSetup, erroredUrls, entry, categoryUrl, maxConcurrentRequests,
                 cacheFile, loadedCache,
                 crawledCache, productLinks, stats, kPc, productPages, pagesOpened,
                 extractCalls, inserts, runError, browserOpen, engine, cacheWritten>>
  /\ UNCHANGED notRunVars

\* run(): no category URL and no adapter category: throw before anything else.
RunNoCategory ==
  /\ runPc = "start"
  /\ categoryUrl = "none"
  /\ runPc' = "rejected"
  /\ UNCHANGED <<runSetup, erroredUrls, engine, cacheWritten, entry, categoryUrl, maxConcurrentRequests, cacheFile, loadedCache,
                 crawledCache, productLinks, stats, kPc, productPages, pagesOpened,
                 extractCalls, inserts, runError, browserOpen>>
  /\ UNCHANGED notRunVars

\* Mutant of RunLoadCache: run() goes on without a category URL.
RunLoadCacheUnchecked ==
  /\ runPc = "start"
  /\ loadedCache' = LoadCache(cacheFile)
  /\ crawledCache' = LoadCache(cacheFile)
  /\ runPc' = "launch"
  /\ UNCHANGED <<runSetup, erroredUrls, engine, cacheWritten, entry, categoryUrl,
                 maxConcurrentRequests, cacheFile,
                 productLinks, stats, kPc, productPages, pagesOpened,
                 extractCalls, inserts, runError, browserOpen>>
  /\ UNCHANGED notRunVars

\* `const crawledCache = await this.loadCache();` and the statistics object.
RunLoadCache ==
  /\ runPc = "start"
  /\ categoryUrl = "url"
  /\ loadedCache' = LoadCache(cacheFile)
  /\ crawledCache' = LoadCache(cacheFile)
  /\ runPc' = "launch"
  /\ UNCHANGED <<runSetup, erroredUrls, engine, cacheWritten, entry, categoryUrl, maxConcurrentRequests, cacheFile,
                 productLinks, stats, kPc, productPages, pagesOpened,
                 extractCalls, inserts, runError, browserOpen>>
  /\ UNCHANGED notRunVars

\* `chromium.launch(...)` and `browser.newContext(...)` resolved.
RunLaunch ==
  /\ runPc = "launch"
  /\ browserOpen' = TRUE
  /\ engine' = "launched"
  /\ runPc' = "collect"
  /\ UNCHANGED <<runSetup, erroredUrls, cacheWritten, entry, categoryUrl, maxConcurrentRequests, cacheFile, loadedCache,
                 crawledCache, productLinks, stats, kPc, productPages, pagesOpened,
                 extractCalls, inserts, runError>>
  /\ UNCHANGED notRunVars

\* `chromium.launch(...)` rejected: outside the try statement, the run rejects.
RunLaunchFails ==
  /\ runPc = "launch"
  /\ engine' = "called"
  /\ runPc' = "rejected"
  /\ UNCHANGED <<runSetup, erroredUrls, cacheWritten, entry, categoryUrl, maxConcurrentRequests, cacheFile, loadedCache,
                 crawledCache, productLinks, stats, kPc, productPages, pagesOpened,
                 extractCalls, inserts, runError, browserOpen>>
  /\ UNCHANGED notRunVars

\* `context.newPage()` and getAllProductLinksFromCategory resolved with the
\* unique links of the pages; every link is mapped through this.limit.
RunCollect ==
  /\ runPc = "collect"
  /\ \E n \in 0..MaxFeed : \E feed \in [1..n -> LinkUrls] :
       /\ productLinks' = UniqueLinks(feed)
       /\ stats' = [stats EXCEPT !.totalProducts = Len(UniqueLinks(feed))]
       /\ kPc' = [i \in 1..Len(UniqueLinks(feed)) |-> "queued"]
  /\ runPc' = "units"
  /\ UNCHANGED <<runSetup, erroredUrls, engine, cacheWritten, entry, categoryUrl, maxConcurrentRequests, cacheFile, loadedCache,
                 crawledCache, productPages, pagesOpened,
                 extractCalls, inserts, runError, browserOpen>>
  /\ UNCHANGED notRunVars

\* Link collection raised: the outer catch, then finally.
RunCollectRaises ==
  /\ runPc = "collect"
  /\ runError' = TRUE
  /\ runPc' = "close"
  /\ UNCHANGED <<runSetup, erroredUrls, engine, cacheWritten, entry, categoryUrl, maxConcurrentRequests, cacheFile, loadedCache,
                 crawledCache, productLinks, stats, kPc, productPages, pagesOpened,
                 extractCalls, inserts, browserOpen>>
  /\ UNCHANGED notRunVars

\* What a unit never changes.
runFixed == <<runPc, entry, categoryUrl, maxConcurrentRequests, cacheFile,
              loadedCache, productLinks, runError, browserOpen, runSetup, engine,
              cacheWritten>>

\* The limiter starts a unit whose URL is in crawledCache:
\* `stats.skippedCount++; return;`
SkipCached(i) ==
  /\ runPc = "units"
  /\ KNextQueued(i)
  /\ LimitAdmits(Cardinality(KActive), maxConcurrentRequests)
  /\ SetHas(crawledCache, productLinks[i])
  /\ stats' = Bump(stats, "skippedCount")
  /\ kPc' = [kPc EXCEPT ![i] = "done"]
  /\ UNCHANGED <<runFixed, erroredUrls, crawledCache, productPages, pagesOpened, extractCalls, inserts>>
  /\ UNCHANGED notRunVars

\* Mutant of StartProduct: the unit does not consult the cache.
StartProductUnchecked(i) ==
  /\ runPc = "units"
  /\ KNextQueued(i)
  /\ LimitAdmits(Cardinality(KActive), maxConcurrentRequests)
  /\ pagesOpened' = pagesOpened \cup {productLinks[i]}
  /\ kPc' = [kPc EXCEPT ![i] = "newPage"]
  /\ UNCHANGED <<runFixed, erroredUrls, crawledCache, stats, productPages, extractCalls, inserts>>
  /\ UNCHANGED notRunVars

\* The limiter starts a unit whose URL is not cached:
\* `const productPage = await context.newPage();` is issued.
StartProduct(i) ==
  /\ runPc = "units"
  /\ KNextQueued(i)
  /\ LimitAdmits(Cardinality(KActive), maxConcurrentRequests)
  /\ ~SetHas(crawledCache, productLinks[i])
  /\ pagesOpened' = pagesOpened \cup {productLinks[i]}
  /\ kPc' = [kPc EXCEPT ![i] = "newPage"]
  /\ UNCHANGED <<runFixed, erroredUrls, crawledCache, stats, productPages, extractCalls, inserts>>
  /\ UNCHANGED notRunVars

\* newPage resolved: the page is open and extractProductData is called.
ProductPageOpens(i) ==
  /\ kPc[i] = "newPage"
  /\ productPages' = productPages \cup {i}
  /\ extractCalls' = extractCalls \cup {productLinks[i]}
  /\ kPc' = [kPc EXCEPT ![i] = "extract"]
  /\ UNCHANGED <<runFixed, erroredUrls, crawledCache, stats, pagesOpened, inserts>>
  /\ UNCHANGED notRunVars

\* newPage rejected: the unit's catch block.
ProductPageFails(i) ==
  /\ kPc[i] = "newPage"
  /\ erroredUrls' = erroredUrls \cup {productLinks[i]}
  /\ stats' = UnitCatch(stats)
  /\ kPc' = [kPc EXCEPT ![i] = "done"]
  /\ UNCHANGED <<runFixed, crawledCache, productPages, pagesOpened, extractCalls, inserts>>
  /\ UNCHANGED notRunVars

\* extractProductData returned data and saveToSupabase reached
\* `await this.supabase.from('products').insert([transformedData])`.
ExtractThenInsert(i) ==
  /\ kPc[i] = "extract"
  /\ kPc' = [kPc EXCEPT ![i] = "insert"]
  /\ UNCHANGED <<runFixed, erroredUrls, crawledCache, stats, productPages, pagesOpened, extractCalls, inserts>>
  /\ UNCHANGED notRunVars

\* extractProductData returned data and saveToSupabase returned false before
\* any insert (no client, or transformProductData returned null):
\* `stats.errorCount++`, then `await productPage.close()`.
ExtractThenSaveRefused(i) ==
  /\ kPc[i] = "extract"
  /\ erroredUrls' = erroredUrls \cup {productLinks[i]}
  /\ stats' = Bump(stats, "errorCount")
  /\ kPc' = [kPc EXCEPT ![i] = "close"]
  /\ UNCHANGED <<runFixed, crawledCache, productPages, pagesOpened, extractCalls, inserts>>
  /\ UNCHANGED notRunVars

\* extractProductData returned null: `stats.errorCount++`, then close.
ExtractReturnsNoData(i) ==
  /\ kPc[i] = "extract"
  /\ erroredUrls' = erroredUrls \cup {productLinks[i]}
  /\ stats' = Bump(stats, "errorCount")
  /\ kPc' = [kPc EXCEPT ![i] = "close"]
  /\ UNCHANGED <<runFixed, crawledCache, productPages, pagesOpened, extractCalls, inserts>>
  /\ UNCHANGED notRunVars

\* extractProductData raised (page.goto outside the adapter's try block): the
\* unit's catch block counts the error; productPage.close() is skipped.
ExtractThrows(i) ==
  /\ kPc[i] = "extract"
  /\ erroredUrls' = erroredUrls \cup {productLinks[i]}
  /\ stats' = UnitCatch(stats)
  /\ kPc' = [kPc EXCEPT ![i] = "done"]
  /\ UNCHANGED <<runFixed, crawledCache, productPages, pagesOpened, extractCalls, inserts>>
  /\ UNCHANGED notRunVars

\* The insert reported no error: saveToSupabase returns true;
\* `stats.successCount++; crawledCache.add(url);`, then close.
InsertSucceeds(i) ==
  /\ kPc[i] = "insert"
  /\ inserts' = [inserts EXCEPT ![productLinks[i]] = Append(@, "ok")]
  /\ stats' = Bump(stats, "successCount")
  /\ crawledCache' = SetAdd(crawledCache, productLinks[i])
  /\ kPc' = [kPc EXCEPT ![i] = "close"]
  /\ UNCHANGED <<runFixed, erroredUrls, productPages, pagesOpened, extractCalls>>
  /\ UNCHANGED notRunVars

\* Mutant of InsertFails: the URL is added to the cache whatever
\* saveToSupabase returned.
InsertFailsCached(i) ==
  /\ kPc[i] = "insert"
  /\ inserts' = [inserts EXCEPT ![productLinks[i]] = Append(@, "error")]
  /\ erroredUrls' = erroredUrls \cup {productLinks[i]}
  /\ stats' = Bump(stats, "errorCount")
  /\ crawledCache' = SetAdd(crawledCache, productLinks[i])
  /\ kPc' = [kPc EXCEPT ![i] = "close"]
  /\ UNCHANGED <<runFixed, productPages, pagesOpened, extractCalls>>
  /\ UNCHANGED notRunVars

\* The insert reported an error or raised: saveToSupabase returns false;
\* `stats.errorCount++`, then close.
InsertFails(i) ==
  /\ kPc[i] = "insert"
  /\ inserts' = [inserts EXCEPT ![productLinks[i]] = Append(@, "error")]
  /\ erroredUrls' = erroredUrls \cup {productLinks[i]}
  /\ stats' = Bump(stats, "errorCount")
  /\ kPc' = [kPc EXCEPT ![i] = "close"]
  /\ UNCHANGED <<runFixed, crawledCache, productPages, pagesOpened, extractCalls>>
  /\ UNCHANGED notRunVars

\* `await productPage.close()` resolved; `await this.randomDelay()`.
ProductPageCloses(i) ==
  /\ kPc[i] = "close"
  /\ productPages' = productPages \ {i}
  /\ kPc' = [kPc EXCEPT ![i] = "delay"]
  /\ UNCHANGED <<runFixed, erroredUrls, crawledCache, stats, pagesOpened, extractCalls, inserts>>
  /\ UNCHANGED notRunVars

\* `await productPage.close()` rejected (the page is already gone): the
\* unit's catch block.
ProductPageCloseFails(i) ==
  /\ kPc[i] = "close"
  /\ productPages' = productPages \ {i}
  /\ erroredUrls' = erroredUrls \cup {productLinks[i]}
  /\ stats' = UnitCatch(stats)
  /\ kPc' = [kPc EXCEPT ![i] = "done"]
  /\ UNCHANGED <<runFixed, crawledCache, pagesOpened, extractCalls, inserts>>
  /\ UNCHANGED notRunVars

\* The random delay elapsed: the unit's function resolves.
ProductDelayElapsed(i) ==
  /\ kPc[i] = "delay"
  /\ kPc' = [kPc EXCEPT ![i] = "done"]
  /\ UNCHANGED <<runFixed, erroredUrls, crawledCache, stats, productPages, pagesOpened, extractCalls, inserts>>
  /\ UNCHANGED notRunVars

\* `await Promise.all(promises)` resolved (no unit rejects);
\* `await this.saveCache(crawledCache)` is issued.
RunAllSettled ==
  /\ runPc = "units"
  /\ \A i \in KUnits : kPc[i] = "done"
  /\ runPc' = "save"
  /\ UNCHANGED <<runSetup, erroredUrls, engine, cacheWritten, entry, categoryUrl, maxConcurrentRequests, cacheFile, loadedCache,
                 crawledCache, productLinks, stats, kPc, productPages, pagesOpened,
                 extractCalls, inserts, runError, browserOpen>>
  /\ UNCHANGED notRunVars

\* The cache file was written.
RunSaveCache ==
  /\ runPc = "save"
  /\ cacheFile' = SaveCache(crawledCache)
  /\ cacheWritten' = TRUE
  /\ runPc' = "close"
  /\ UNCHANGED <<runSetup, erroredUrls, engine, entry, categoryUrl, maxConcurrentRequests, loadedCache,
                 crawledCache, productLinks, stats, kPc, productPages, pagesOpened,
                 extractCalls, inserts, runError, browserOpen>>
  /\ UNCHANGED notRunVars

\* writeFile rejected: the file is as it was or unusable; the outer catch.
RunSaveCacheFails ==
  /\ runPc = "save"
  /\ cacheFile' \in {cacheFile, FileCorrupt}
  /\ runError' = TRUE
  /\ cacheWritten' = TRUE
  /\ runPc' = "close"
  /\ UNCHANGED <<runSetup, erroredUrls, engine, entry, categoryUrl, maxConcurrentRequests, loadedCache,
                 crawledCache, productLinks, stats, kPc, productPages, pagesOpened,
                 extractCalls, inserts, browserOpen>>
  /\ UNCHANGED notRunVars

\* finally: `await browser.close()` closes every page; run() returns stats or
\* rethrows the error its catch block logged, main() swallows it.
RunClose ==
  /\ runPc = "close"
  /\ browserOpen' = FALSE
  /\ productPages' = {}
  /\ runPc' = IF runError /\ entry = "run" THEN "rejected" ELSE "returned"
  /\ UNCHANGED <<runSetup, erroredUrls, engine, cacheWritten, entry, categoryUrl, maxConcurrentRequests, cacheFile, loadedCache,
                 crawledCache, productLinks, stats, kPc, pagesOpened,
                 extractCalls, inserts, runError>>
  /\ UNCHANGED notRunVars

\* A completed run() is followed by another run() of the same scraper: the
\* cache file is the one the first run wrote, everything else starts afresh.
RunAgain ==
  /\ runPc = "returned"
  /\ entry = "run"
  /\ ~runError
  /\ runNo = 1
  /\ runNo' = 2
  /\ prevSuccess' = {url \in LinkUrls : "ok" \in Range(inserts[url])}
  /\ prevError' = erroredUrls
  /\ loadedCache' = <<>>
  /\ crawledCache' = <<>>
  /\ productLinks' = <<>>
  /\ stats' = [totalProducts |-> 0, successCount |-> 0, errorCount |-> 0, skippedCount |-> 0]
  /\ kPc' = <<>>
  /\ productPages' = {}
  /\ pagesOpened' = {}
  /\ extractCalls' = {}
  /\ inserts' = [u \in LinkUrls |-> <<>>]
  /\ runError' = FALSE
  /\ browserOpen' = FALSE
  /\ engine' = "none"
  /\ cacheWritten' = FALSE
  /\ erroredUrls' = {}
  /\ runPc' = "start"
  /\ UNCHANGED <<entry, categoryUrl, maxConcurrentRequests, cacheFile, retailer, configMax>>
  /\ UNCHANGED notRunVars

(* ======================== the link collectors ========================= *)
\* extractProductLinks of scrape-me.js ("scrape-me"), of test-1stdibs.js
\* ("test-1stdibs") and of the sequential test script ("sequential"), and
\* FurnitureScraper.getAllProductLinksFromCategory ("category").
Collectors == {"scrape-me", "test-1stdibs", "sequential", "category"}

\* `const NAVIGATION_RETRY_COUNT = 3;`
NAVIGATION_RETRY_COUNT == 3

\* A value of maxPages no listing reaches (the default, Infinity; the
\* category collector has no page limit at all).
NoPageLimit == MaxListingPages + 1

\* The link lists one listing page can yield: up to two links, repeats allowed.
PageLists ==
  {<<>>} \cup {<<a>> : a \in LinkUrls} \cup {<<a, b>> : a \in LinkUrls, b \in LinkUrls}

\* Mutant of Accumulate: the links of the latest page replace the others.
AccumulateLastPage(c, acc, links) == links

\* `allLinks.push(...links)` for the array collectors,
\* `links.forEach(link => productLinks.add(link))` for the category collector.
Accumulate(c, acc, links) == IF c = "category" THEN SetAddAll(acc, links) ELSE acc \o links

\* What the collector returns after its pagination loop:
\* `[...new Set(allLinks)]`, `[...productLinks]`, or (sequential script) allLinks.
CollectorResult(c, acc) == IF c = "sequential" THEN acc ELSE SetAddAll(<<>>, acc)

\* Mutant of PagingContinues: the page counter is compared with <=.
PagingContinuesInclusive(more, page, limit) == more /\ page <= limit

\* `while (hasNextPage && currentPage < maxPages)`; `while (hasNextPage)`
\* when the limit is NoPageLimit.
PagingContinues(more, page, limit) == more /\ page < limit

\* Mutant of FirstPageRetries: one more attempt is allowed.
FirstPageRetriesInclusive(count) == count <= NAVIGATION_RETRY_COUNT

\* Mutant of FirstPageRetries: the loop test allows one more round.
FirstPageRetriesOneMore(count) == count < NAVIGATION_RETRY_COUNT + 1

\* `while (!initialLinkExtraction && retryCount < NAVIGATION_RETRY_COUNT)`
FirstPageRetries(count) == count < NAVIGATION_RETRY_COUNT

LinksIdle ==
  /\ lPc = "idle"
  /\ collector = "category"
  /\ maxPages = 0
  /\ allLinks = <<>>
  /\ currentPage = 0
  /\ hasNextPage = FALSE
  /\ retryCount = 0
  /\ navigationRetryCount = 0
  /\ uniqueLinks = <<>>
  /\ found = {}
  /\ pagesExtracted = 0
  /\ extractAttempts = 0
  /\ nextCalls = 0
  /\ advances = 0
  /\ falseAt = 0
  /\ adapterRaised = FALSE

\* A collector is entered: maxPages >= 1 or the default / no limit.
LinksInit ==
  /\ lPc = "first"
  /\ collector \in Collectors
  /\ maxPages \in (1..MaxListingPages) \cup {NoPageLimit}
  /\ collector = "category" => maxPages = NoPageLimit
  /\ allLinks = <<>>
  /\ currentPage = 1
  /\ hasNextPage = TRUE
  /\ retryCount = 0
  /\ navigationRetryCount = 0
  /\ uniqueLinks = <<>>
  /\ found = {}
  /\ pagesExtracted = 0
  /\ extractAttempts = 0
  /\ nextCalls = 0
  /\ advances = 0
  /\ falseAt = 0
  /\ adapterRaised = FALSE

\* The top of the pagination loop: go on with goToNextPage, or leave the
\* loop and return the result.
AfterPage(acc, more, page) ==
  IF PagingContinues(more, page, maxPages)
    THEN /\ lPc' = "next"
         /\ navigationRetryCount' = 0
         /\ uniqueLinks' = uniqueLinks
    ELSE /\ lPc' = "returned"
         /\ navigationRetryCount' = navigationRetryCount
         /\ uniqueLinks' = CollectorResult(collector, acc)

\* The first-page loop of scrape-me.js after a failed attempt with the
\* counter at n: try again, or give up with `return allLinks`.
AfterFirstPageFailure(n) ==
  IF FirstPageRetries(n)
    THEN lPc' = "first" /\ uniqueLinks' = uniqueLinks
    ELSE lPc' = "returned" /\ uniqueLinks' = allLinks

\* The first extraction returned a list the collector accepts: any list for
\* the simple collectors, a non-empty one for scrape-me.js. The category
\* collector calls goToNextPage after every extraction.
FirstPageExtracted ==
  /\ lPc = "first"
  /\ \E links \in PageLists :
       /\ collector = "scrape-me" => links # <<>>
       /\ allLinks' = Accumulate(collector, allLinks, links)
       /\ found' = found \cup Range(links)
       /\ IF collector = "category"
            THEN lPc' = "next" /\ UNCHANGED <<navigationRetryCount, uniqueLinks>>
            ELSE AfterPage(Accumulate(collector, allLinks, links), hasNextPage, currentPage)
  /\ pagesExtracted' = pagesExtracted + 1
  /\ extractAttempts' = extractAttempts + 1
  /\ UNCHANGED <<collector, maxPages, currentPage, hasNextPage, retryCount,
                 nextCalls, advances, falseAt, adapterRaised>>
  /\ UNCHANGED notLinkVars

\* scrape-me.js: the first page yielded no link: `retryCount++`, then
\* `await page.reload(...)`.
FirstPageEmpty ==
  /\ lPc = "first"
  /\ collector = "scrape-me"
  /\ retryCount' = retryCount + 1
  /\ extractAttempts' = extractAttempts + 1
  /\ lPc' = "reload"
  /\ UNCHANGED <<collector, maxPages, allLinks, currentPage, hasNextPage,
                 navigationRetryCount, uniqueLinks, found, pagesExtracted, nextCalls, advances,
                 falseAt, adapterRaised>>
  /\ UNCHANGED notLinkVars

\* The first extraction raised: scrape-me.js counts a retry (its reload is
\* guarded by .catch); the other collectors reject.
FirstPageRaises ==
  /\ lPc = "first"
  /\ adapterRaised' = TRUE
  /\ extractAttempts' = extractAttempts + 1
  /\ IF collector = "scrape-me"
       THEN /\ retryCount' = retryCount + 1
            /\ AfterFirstPageFailure(retryCount + 1)
       ELSE /\ lPc' = "rejected"
            /\ UNCHANGED <<retryCount, uniqueLinks>>
  /\ UNCHANGED <<collector, maxPages, allLinks, currentPage, hasNextPage,
                 navigationRetryCount, found, pagesExtracted, nextCalls, advances,
                 falseAt>>
  /\ UNCHANGED notLinkVars

\* scrape-me.js: the reload after an empty first page resolved.
ReloadResolves ==
  /\ lPc = "reload"
  /\ AfterFirstPageFailure(retryCount)
  /\ UNCHANGED <<collector, maxPages, allLinks, currentPage, hasNextPage, retryCount,
                 navigationRetryCount, found, pagesExtracted, extractAttempts,
                 nextCalls, advances, falseAt, adapterRaised>>
  /\ UNCHANGED notLinkVars

\* scrape-me.js: the reload after an empty first page rejected inside the try
\* block; the catch block counts another retry.
ReloadRejects ==
  /\ lPc = "reload"
  /\ adapterRaised' = TRUE
  /\ retryCount' = retryCount + 1
  /\ AfterFirstPageFailure(retryCount + 1)
  /\ UNCHANGED <<collector, maxPages, allLinks, currentPage, hasNextPage,
                 navigationRetryCount, found, pagesExtracted, extractAttempts,
                 nextCalls, advances, falseAt>>
  /\ UNCHANGED notLinkVars

\* goToNextPage returned true (a listing has at most MaxListingPages pages):
\* `currentPage++`, then the new page is extracted.
NextPageAdvances ==
  /\ lPc = "next"
  /\ currentPage < MaxListingPages
  /\ hasNextPage' = TRUE
  /\ currentPage' = currentPage + 1
  /\ nextCalls' = nextCalls + 1
  /\ advances' = advances + 1
  /\ lPc' = "extract"
  /\ UNCHANGED <<collector, maxPages, allLinks, retryCount, navigationRetryCount,
                 uniqueLinks, found, pagesExtracted, extractAttempts, falseAt,
                 adapterRaised>>
  /\ UNCHANGED notLinkVars

\* goToNextPage returned false: the loops end and the result is returned.
NextPageEnds ==
  /\ lPc = "next"
  /\ hasNextPage' = FALSE
  /\ nextCalls' = nextCalls + 1
  /\ falseAt' = IF falseAt = 0 THEN currentPage ELSE falseAt
  /\ lPc' = "returned"
  /\ uniqueLinks' = CollectorResult(collector, allLinks)
  /\ UNCHANGED <<collector, maxPages, allLinks, currentPage, retryCount,
                 navigationRetryCount, found, pagesExtracted, extractAttempts,
                 advances, adapterRaised>>
  /\ UNCHANGED notLinkVars

\* goToNextPage raised: scrape-me.js retries it up to NAVIGATION_RETRY_COUNT
\* times and then sets hasNextPage = false; the other collectors reject.
NextPageRaises ==
  /\ lPc = "next"
  /\ adapterRaised' = TRUE
  /\ nextCalls' = nextCalls + 1
  /\ IF collector = "scrape-me"
       THEN /\ navigationRetryCount' = navigationRetryCount + 1
            /\ IF navigationRetryCount + 1 < NAVIGATION_RETRY_COUNT
                 THEN /\ lPc' = "next"
                      /\ UNCHANGED <<hasNextPage, uniqueLinks>>
                 ELSE /\ hasNextPage' = FALSE
                      /\ lPc' = "returned"
                      /\ uniqueLinks' = CollectorResult(collector, allLinks)
       ELSE /\ lPc' = "rejected"
            /\ UNCHANGED <<navigationRetryCount, hasNextPage, uniqueLinks>>
  /\ UNCHANGED <<collector, maxPages, allLinks, currentPage, retryCount,
                 found, pagesExtracted, extractAttempts, advances, falseAt>>
  /\ UNCHANGED notLinkVars

\* The extraction of a page reached through goToNextPage returned a list.
NewPageExtracted ==
  /\ lPc = "extract"
  /\ \E links \in PageLists :
       /\ allLinks' = Accumulate(collector, allLinks, links)
       /\ found' = found \cup Range(links)
       /\ IF collector = "category"
            THEN lPc' = "next" /\ UNCHANGED <<navigationRetryCount, uniqueLinks>>
            ELSE AfterPage(Accumulate(collector, allLinks, links), hasNextPage, currentPage)
  /\ pagesExtracted' = pagesExtracted + 1
  /\ extractAttempts' = extractAttempts + 1
  /\ UNCHANGED <<collector, maxPages, currentPage, hasNextPage, retryCount,
                 nextCalls, advances, falseAt, adapterRaised>>
  /\ UNCHANGED notLinkVars

\* That extraction raised: scrape-me.js counts a navigation retry (the page
\* was already advanced, so goToNextPage is not repeated for it) and goes back
\* to the pagination loop; the other collectors reject.
NewPageExtractRaises ==
  /\ lPc = "extract"
  /\ adapterRaised' = TRUE
  /\ extractAttempts' = extractAttempts + 1
  /\ IF collector = "scrape-me"
       THEN /\ hasNextPage' = (navigationRetryCount + 1 < NAVIGATION_RETRY_COUNT)
            /\ IF PagingContinues(navigationRetryCount + 1 < NAVIGATION_RETRY_COUNT,
                                  currentPage, maxPages)
                 THEN /\ lPc' = "next"
                      /\ navigationRetryCount' = 0
                      /\ uniqueLinks' = uniqueLinks
                 ELSE /\ lPc' = "returned"
                      /\ navigationRetryCount' = navigationRetryCount + 1
                      /\ uniqueLinks' = CollectorResult(collector, allLinks)
       ELSE /\ lPc' = "rejected"
            /\ UNCHANGED <<hasNextPage, navigationRetryCount, uniqueLinks>>
  /\ UNCHANGED <<collector, maxPages, allLinks, currentPage, retryCount,
                 found, pagesExtracted, nextCalls, advances, falseAt>>
  /\ UNCHANGED notLinkVars

(* ================== the adapters and their factory ==================== *)
\* Retailer identifiers and retailer names are strings, written here as
\* sequences of one-character strings.
IKEA == <<"I", "K", "E", "A">>
Wayfair == <<"W", "a", "y", "f", "a", "i", "r">>
Article == <<"A", "r", "t", "i", "c", "l", "e">>
FirstDibs == <<"1", "s", "t", "D", "i", "b", "s">>

\* The lower-case letter of every upper-case letter.
LowerCaseOf ==
  [A |-> "a", B |-> "b", C |-> "c", D |-> "d", E |-> "e", F |-> "f", G |-> "g",
   H |-> "h", I |-> "i", J |-> "j", K |-> "k", L |-> "l", M |-> "m", N |-> "n",
   O |-> "o", P |-> "p", Q |-> "q", R |-> "r", S |-> "s", T |-> "t", U |-> "u",
   V |-> "v", W |-> "w", X |-> "x", Y |-> "y", Z |-> "z"]

\* String.prototype.toLowerCase: letters are folded, other characters kept.
ToLowerCase(s) ==
  [i \in 1..Len(s) |-> IF s[i] \in DOMAIN LowerCaseOf THEN LowerCaseOf[s[i]] ELSE s[i]]

\* The identifiers getAdapter is called with: casings of the four known
\* ones, and strings that are none of them.
RetailerIds ==
  { <<"i", "k", "e", "a">>, IKEA, <<"I", "k", "e", "a">>,
    <<"w", "a", "y", "f", "a", "i", "r">>, Wayfair,
    <<"a", "r", "t", "i", "c", "l", "e">>, <<"A", "R", "T", "I", "C", "L", "E">>,
    <<"1", "s", "t", "d", "i", "b", "s">>, FirstDibs,
    <<"a", "m", "a", "z", "o", "n">>, <<"i", "k", "e", "a", " ">>, <<>> }

NoAdapter == "none"
AdapterClasses == {"IkeaAdapter", "WayfairAdapter", "ArticleAdapter", "FirstDibsAdapter"}

\* getRetailerName() of each adapter class.
GetRetailerName(a) ==
  CASE a = "IkeaAdapter" -> IKEA
    [] a = "WayfairAdapter" -> Wayfair
    [] a = "ArticleAdapter" -> Article
    [] a = "FirstDibsAdapter" -> FirstDibs

\* Mutant of AdapterFor: the switch compares the identifier as given.
AdapterForExact(id) ==
  CASE id = <<"i", "k", "e", "a">> -> "IkeaAdapter"
    [] id = <<"w", "a", "y", "f", "a", "i", "r">> -> "WayfairAdapter"
    [] id = <<"a", "r", "t", "i", "c", "l", "e">> -> "ArticleAdapter"
    [] id = <<"1", "s", "t", "d", "i", "b", "s">> -> "FirstDibsAdapter"
    [] OTHER -> NoAdapter

\* The switch of getAdapter over `retailer.toLowerCase()`; NoAdapter stands
\* for the default branch.
AdapterFor(id) ==
  LET retailerLower == ToLowerCase(id)
  IN CASE retailerLower = <<"i", "k", "e", "a">> -> "IkeaAdapter"
       [] retailerLower = <<"w", "a", "y", "f", "a", "i", "r">> -> "WayfairAdapter"
       [] retailerLower = <<"a", "r", "t", "i", "c", "l", "e">> -> "ArticleAdapter"
       [] retailerLower = <<"1", "s", "t", "d", "i", "b", "s">> -> "FirstDibsAdapter"
       [] OTHER -> NoAdapter

\* An Error whose message is a template literal: the literal text and the
\* values interpolated into it.
NoError == [text |-> "", values |-> <<>>]

\* new Error(`Unsupported retailer: ${retailer}`)
UnsupportedRetailerError(id) ==
  [text |-> "Unsupported retailer: ", values |-> <<id>>]

\* getSupportedRetailers()
GetSupportedRetailers == <<IKEA, Wayfair, Article, FirstDibs>>

(* ---------------------- extractProductLinksFromCategory --------------- *)
\* What the category page does when the adapter navigates to it: the
\* navigation fails, or the page loads and shows a list of product links.
NavigationFailure == [loaded |-> FALSE, links |-> <<>>]
PageLoaded(links) == [loaded |-> TRUE, links |-> links]

\* The outcome of a call: a returned value or a raised error.
Returned(v) == [raised |-> FALSE, value |-> v]
Raised == [raised |-> TRUE, value |-> <<>>]

\* extractProductLinksFromCategory(page, url). FirstDibsAdapter wraps the
\* whole body, page.goto included, in try/catch and returns [] from the catch
\* block; the other adapters await page.goto outside any try.
ExtractProductLinksFromCategory(a, page) ==
  IF page.loaded
    THEN Returned(page.links)
    ELSE IF a = "FirstDibsAdapter" THEN Returned(<<>>) ELSE Raised

(* --------------------------- transformProductData --------------------- *)
\* A raw record is a function from the names of the properties it has to
\* their values; a property it does not have reads as undefined.
\* undefined where a string is expected, and null (an object of its own).
UndefinedValue == "<undefined>"
NullValue == [null |-> TRUE]
EmptyObject == <<>>

\* Properties whose values are strings ('' is falsy); the other properties
\* hold objects or `true`, which are truthy.
StringProperties == {"productId", "name", "price", "description", "imageUrl", "url", "slug"}

\* `obj.f` used as a condition.
FieldTruthy(obj, f) == f \in DOMAIN obj /\ (f \in StringProperties => obj[f] # "")

\* `obj.f`
Get(obj, f) == IF f \in DOMAIN obj THEN obj[f] ELSE UndefinedValue

\* `obj.f || d`
GetOr(obj, f, d) == IF FieldTruthy(obj, f) THEN obj[f] ELSE d

\* `{ ...obj, f: v }`
SpreadWith(obj, f, v) == [g \in DOMAIN obj \cup {f} |-> IF g = f THEN v ELSE obj[g]]

\* JSON.stringify(v): the text of v, kept apart from v itself.
JsonStringify(v) == [json |-> v]

\* The structured-data blobs a product page can carry.
JsonLdBlobs == {[name |-> "Chair", offers |-> [price |-> "10"]], [sku |-> "sku-1"]}

\* The productId of a raw record: none, the empty string, or an identifier.
NoProductId == "<absent>"
ProductIdChoices == {NoProductId, "", "id-1"}

\* Properties a raw record may or may not have.
OptionalProperties ==
  {"jsonLd", "manualExtraction", "name", "price", "description", "imageUrl", "specifications"}

RawRecord(props, pid, blob) ==
  [f \in props \cup {"url", "slug"} \cup (IF pid = NoProductId THEN {} ELSE {"productId"}) |->
     CASE f = "jsonLd" -> blob
       [] f = "manualExtraction" -> TRUE
       [] f = "specifications" -> [Style |-> "Modern"]
       [] f = "productId" -> pid
       [] f = "name" -> "Chair"
       [] f = "price" -> "$10"
       [] f = "description" -> "A chair"
       [] f = "imageUrl" -> "chair.jpg"
       [] f = "url" -> "https://shop/p/chair"
       [] f = "slug" -> "chair"]

RawRecords ==
  {RawRecord(props, pid, blob) :
     props \in SUBSET OptionalProperties, pid \in ProductIdChoices, blob \in JsonLdBlobs}

\* The arguments transformProductData is called with: null, the records
\* above, and a record that holds a name and nothing else.
RawInputs == {NullValue, [name |-> "Chair"]} \cup RawRecords

\* The branch `if (productData.jsonLd) { ... }` of the Wayfair, IKEA and
\* Article adapters.
TransformJsonLd(a, r) ==
  [retailer |-> GetRetailerName(a),
   product_id |-> Get(r, "productId"),
   name |-> GetOr(r.jsonLd, "name", ""),
   slug |-> Get(r, "slug"),
   price |-> IF FieldTruthy(r.jsonLd, "offers")
               THEN JsonStringify(r.jsonLd.offers) ELSE NullValue,
   raw_data |-> r.jsonLd,
   url |-> Get(r, "url")]

\* The rawData object of the branch `if (productData.manualExtraction)`:
\* ArticleAdapter keeps the description, WayfairAdapter does not.
ManualRawData(a, r) ==
  IF a = "ArticleAdapter"
    THEN [name |-> Get(r, "name"), price |-> Get(r, "price"),
          description |-> Get(r, "description"), url |-> Get(r, "url"),
          extractionMethod |-> "manual"]
    ELSE [name |-> Get(r, "name"), price |-> Get(r, "price"), url |-> Get(r, "url"),
          extractionMethod |-> "manual"]

TransformManual(a, r) ==
  [retailer |-> GetRetailerName(a),
   product_id |-> Get(r, "productId"),
   name |-> Get(r, "name"),
   slug |-> Get(r, "slug"),
   price |-> JsonStringify([price |-> Get(r, "price")]),
   raw_data |-> ManualRawData(a, r),
   url |-> Get(r, "url")]

\* FirstDibsAdapter.transformProductData for a non-null record.
TransformFirstDibs(a, r) ==
  [retailer |-> GetRetailerName(a),
   product_id |-> Get(r, "productId"),
   name |-> GetOr(r, "name", ""),
   slug |-> Get(r, "slug"),
   price |-> GetOr(r, "price", "Price not available"),
   description |-> GetOr(r, "description", ""),
   image_url |-> GetOr(r, "imageUrl", ""),
   url |-> Get(r, "url"),
   specifications |-> GetOr(r, "specifications", EmptyObject),
   raw_data |-> SpreadWith(r, "extractionMethod", "manual")]

\* transformProductData(productData) of each adapter.
TransformProductData(a, r) ==
  IF r = NullValue THEN NullValue
  ELSE CASE a = "FirstDibsAdapter" -> TransformFirstDibs(a, r)
         [] a = "IkeaAdapter" ->
              IF FieldTruthy(r, "jsonLd") THEN TransformJsonLd(a, r) ELSE NullValue
         [] OTHER ->
              IF FieldTruthy(r, "jsonLd") THEN TransformJsonLd(a, r)
              ELSE IF FieldTruthy(r, "manualExtraction") THEN TransformManual(a, r)
              ELSE NullValue

\* Mutant of RawAfterTransform: the provenance mark is written into the
\* record itself.
RawAfterTransformMarked(a, r) ==
  IF r = NullValue THEN r ELSE SpreadWith(r, "extractionMethod", "manual")

\* The raw record after the call: no adapter assigns to productData or to
\* one of its properties (the 1stDibs adapter copies it with a spread).
RawAfterTransform(a, r) == r

(* ------------------------------ loadCache ------------------------------ *)
\* The cache files loadCache is called on: no file, invalid JSON, a JSON
\* list of URLs, and valid JSON that is no list.
CacheFiles ==
  {FileMissing, FileCorrupt, FileNumber, FileObject}
    \cup {FileList(items) : items \in PageLists}
    \cup {FileString(<<>>), FileString(<<"a", "b">>), FileString(<<"a", "a">>)}

(* ------------------------------- actions ------------------------------- *)
\* One call on the adapter that getAdapter returned is followed.
NoCall == [method |-> "none"]

AdapterIdle ==
  /\ aPc = "idle"
  /\ retailerId = <<>>
  /\ adapter = NoAdapter
  /\ factoryError = NoError
  /\ lastCall = NoCall

\* AdapterFactory.getAdapter is about to be called with an identifier.
AdapterInit ==
  /\ aPc = "start"
  /\ retailerId \in RetailerIds
  /\ adapter = NoAdapter
  /\ factoryError = NoError
  /\ lastCall = NoCall

\* getAdapter returns `new XAdapter(...)` from one of the four cases.
GetAdapterReturns ==
  /\ aPc = "start"
  /\ AdapterFor(retailerId) # NoAdapter
  /\ adapter' = AdapterFor(retailerId)
  /\ aPc' = "ready"
  /\ UNCHANGED <<retailerId, factoryError, lastCall>>
  /\ UNCHANGED notAdapterVars

\* getAdapter reaches the default case and throws.
GetAdapterThrows ==
  /\ aPc = "start"
  /\ AdapterFor(retailerId) = NoAdapter
  /\ factoryError' = UnsupportedRetailerError(retailerId)
  /\ aPc' = "unsupported"
  /\ UNCHANGED <<retailerId, adapter, lastCall>>
  /\ UNCHANGED notAdapterVars

\* adapter.extractProductLinksFromCategory(page, url) when page.goto rejects.
CategoryNavigationFails ==
  /\ aPc = "ready"
  /\ lastCall' = [method |-> "extractProductLinksFromCategory",
                  arg |-> NavigationFailure,
                  outcome |-> ExtractProductLinksFromCategory(adapter, NavigationFailure)]
  /\ aPc' = "called"
  /\ UNCHANGED <<retailerId, adapter, factoryError>>
  /\ UNCHANGED notAdapterVars

\* adapter.extractProductLinksFromCategory(page, url) when the page loads.
CategoryPageLoads ==
  /\ aPc = "ready"
  /\ \E links \in PageLists :
       lastCall' = [method |-> "extractProductLinksFromCategory",
                    arg |-> PageLoaded(links),
                    outcome |-> ExtractProductLinksFromCategory(adapter, PageLoaded(links))]
  /\ aPc' = "called"
  /\ UNCHANGED <<retailerId, adapter, factoryError>>
  /\ UNCHANGED notAdapterVars

\* adapter.transformProductData(productData)
TransformCalled ==
  /\ aPc = "ready"
  /\ \E r \in RawInputs :
       lastCall' = [method |-> "transformProductData",
                    arg |-> r,
                    outcome |-> Returned(TransformProductData(adapter, r)),
                    argAfter |-> RawAfterTransform(adapter, r)]
  /\ aPc' = "called"
  /\ UNCHANGED <<retailerId, adapter, factoryError>>
  /\ UNCHANGED notAdapterVars

\* loadCache() of the scraper built around the adapter: every error inside
\* it is caught, so it always returns.
LoadCacheCalled ==
  /\ aPc = "ready"
  /\ \E file \in CacheFiles :
       lastCall' = [method |-> "loadCache",
                    arg |-> file,
                    outcome |-> Returned(LoadCache(file))]
  /\ aPc' = "called"
  /\ UNCHANGED <<retailerId, adapter, factoryError>>
  /\ UNCHANGED notAdapterVars

(* ===== FurnitureScraper.getAllProductLinksFromCategory on a paged site ===== *)
\* The loop of getAllProductLinksFromCategory together with the page session
\* it drives through IkeaAdapter.extractProductLinksFromCategory and
\* IkeaAdapter.goToNextPage (the Wayfair adapter has the same two bodies).

\* The listing page `page.goto(url)` shows: url is the category URL, which
\* is the first page of the listing.
FirstListingPage == 1

\* goToNextPage finds a visible "Next" button on every page but the last.
NextButtonVisible(shown, pages) == shown < pages

\* `currentPage++`, saturating at MaxPageCounter.
NextPageCounter(n) == Min(n + 1, MaxPageCounter)

CategoryIdle ==
  /\ cPc = "idle"
  /\ sitePages = 0
  /\ sessionPage = 0
  /\ cProductLinks = <<>>
  /\ cHasNextPage = FALSE
  /\ cCurrentPage = 0
  /\ advancedTo = 0
  /\ extractedPage = 0
  /\ cResult = <<>>

\* getAllProductLinksFromCategory(page, url) is entered with a fresh page;
\* the category has between one and MaxListingPages pages.
CategoryInit ==
  /\ cPc = "extract"
  /\ sitePages \in 1..MaxListingPages
  /\ sessionPage = 0
  /\ cProductLinks = <<>>
  /\ cHasNextPage = TRUE
  /\ cCurrentPage = 1
  /\ advancedTo = FirstListingPage
  /\ extractedPage = 0
  /\ cResult = <<>>

\* `const links = await this.adapter.extractProductLinksFromCategory(page, url)`
\* resolves: the adapter has navigated the page to url and read the links it
\* shows; `links.forEach(link => productLinks.add(link))`.
CategoryExtracts ==
  /\ cPc = "extract"
  /\ sessionPage' = FirstListingPage
  /\ extractedPage' = FirstListingPage
  /\ \E links \in PageLists : cProductLinks' = SetAddAll(cProductLinks, links)
  /\ cPc' = "next"
  /\ UNCHANGED <<sitePages, cHasNextPage, cCurrentPage, advancedTo, cResult>>
  /\ UNCHANGED notCategoryVars

\* page.goto(url) rejects: the error leaves getAllProductLinksFromCategory.
CategoryExtractRaises ==
  /\ cPc = "extract"
  /\ cPc' = "rejected"
  /\ UNCHANGED <<sitePages, sessionPage, cProductLinks, cHasNextPage, cCurrentPage,
                 advancedTo, extractedPage, cResult>>
  /\ UNCHANGED notCategoryVars

\* goToNextPage clicks the "Next" button and returns true: `currentPage++`,
\* `await this.randomDelay()`, and the loop goes round.
CategoryNextAdvances ==
  /\ cPc = "next"
  /\ NextButtonVisible(sessionPage, sitePages)
  /\ sessionPage' = sessionPage + 1
  /\ advancedTo' = sessionPage + 1
  /\ cHasNextPage' = TRUE
  /\ cCurrentPage' = NextPageCounter(cCurrentPage)
  /\ cPc' = "extract"
  /\ UNCHANGED <<sitePages, cProductLinks, extractedPage, cResult>>
  /\ UNCHANGED notCategoryVars

\* goToNextPage finds no visible button and returns false: the loop ends
\* and `[...productLinks]` is returned.
CategoryNextEnds ==
  /\ cPc = "next"
  /\ ~NextButtonVisible(sessionPage, sitePages)
  /\ cHasNextPage' = FALSE
  /\ cResult' = cProductLinks
  /\ cPc' = "returned"
  /\ UNCHANGED <<sitePages, sessionPage, cProductLinks, cCurrentPage, advancedTo,
                 extractedPage>>
  /\ UNCHANGED notCategoryVars

\* A page call inside goToNextPage rejects: the error leaves the loop.
CategoryNextRaises ==
  /\ cPc = "next"
  /\ cPc' = "rejected"
  /\ UNCHANGED <<sitePages, sessionPage, cProductLinks, cHasNextPage, cCurrentPage,
                 advancedTo, extractedPage, cResult>>
  /\ UNCHANGED notCategoryVars

(* ============ the all_products files of test-1stdibs.js ================ *)
\* `const CONCURRENCY = 10;` and `const SAVE_INTERVAL = 10;`
CONCURRENCY == 10
SAVE_INTERVAL == 10

\* Units of the pipeline that have started and not finished: extracting, or
\* inside their onSuccess callback.
ScriptInFlight ==
  tRunning + tCallbacks + BagCardinality(arrayWrites) + tObjectWrites

\* `allScrapedProducts.length % SAVE_INTERVAL === 0 &&
\*  allScrapedProducts.length > lastSaveCount`
InterimSaveDue(all, saved) == Len(all) % SAVE_INTERVAL = 0 /\ Len(all) > saved

\* The condition under which the code after the pipeline calls
\* saveAllProductsFiles once more.
FinalSaveDue(scraped, all, saved) ==
  \/ Len(scraped) > Len(all)
  \/ Len(all) > saved
  \/ saved = 0

ScriptIdle ==
  /\ tPc = "idle"
  /\ tQueued = 0
  /\ tRunning = 0
  /\ tCallbacks = 0
  /\ arrayWrites = EmptyBag
  /\ tObjectWrites = 0
  /\ allScrapedProducts = <<>>
  /\ scrapedProducts = <<>>
  /\ lastSaveCount = 0
  /\ allProductsFile = FileMissing
  /\ finalSnapshot = <<>>
  /\ interimSaved = {}

\* processProductsWithConcurrency is called with the product links of the
\* category (at least one, or the script skips the processing).
ScriptInit ==
  /\ tPc = "pipeline"
  /\ tQueued \in 1..MaxProductLinks
  /\ tRunning = 0
  /\ tCallbacks = 0
  /\ arrayWrites = EmptyBag
  /\ tObjectWrites = 0
  /\ allScrapedProducts = <<>>
  /\ scrapedProducts = <<>>
  /\ lastSaveCount = 0
  /\ allProductsFile = FileMissing
  /\ finalSnapshot = <<>>
  /\ interimSaved = {}

\* The limiter starts the next unit.
ScriptUnitStarts ==
  /\ tPc = "pipeline"
  /\ tQueued > 0
  /\ LimitAdmits(ScriptInFlight, CONCURRENCY)
  /\ tQueued' = tQueued - 1
  /\ tRunning' = tRunning + 1
  /\ UNCHANGED <<tPc, tCallbacks, arrayWrites, tObjectWrites, allScrapedProducts,
                 scrapedProducts, lastSaveCount, allProductsFile, finalSnapshot>>
  /\ UNCHANGED interimSaved
  /\ UNCHANGED notScriptVars

\* A unit ends without a product; onFailure only writes to the log.
ScriptUnitFails ==
  /\ tPc = "pipeline"
  /\ tRunning > 0
  /\ tRunning' = tRunning - 1
  /\ UNCHANGED <<tPc, tQueued, tCallbacks, arrayWrites, tObjectWrites, allScrapedProducts,
                 scrapedProducts, lastSaveCount, allProductsFile, finalSnapshot>>
  /\ UNCHANGED interimSaved
  /\ UNCHANGED notScriptVars

\* A unit has its product: `results.push(transformedData)`, then onSuccess
\* runs up to its first await: `allScrapedProducts.push(product)`. Products
\* are numbered in the order in which they are appended.
ScriptUnitSucceeds ==
  /\ tPc = "pipeline"
  /\ tRunning > 0
  /\ tRunning' = tRunning - 1
  /\ tCallbacks' = tCallbacks + 1
  /\ scrapedProducts' = Append(scrapedProducts, Len(scrapedProducts) + 1)
  /\ allScrapedProducts' = Append(allScrapedProducts, Len(allScrapedProducts) + 1)
  /\ UNCHANGED <<tPc, tQueued, arrayWrites, tObjectWrites, lastSaveCount,
                 allProductsFile, finalSnapshot>>
  /\ UNCHANGED interimSaved
  /\ UNCHANGED notScriptVars

\* The writes of onSuccess to the product's own file and to the log are
\* done (they touch nothing shared). When an interim save is due,
\* saveAllProductsFiles is called: JSON.stringify(allScrapedProducts) is
\* evaluated now and the write of all_products.json is issued.
ScriptProductFileWritten ==
  /\ tPc = "pipeline"
  /\ tCallbacks > 0
  /\ tCallbacks' = tCallbacks - 1
  /\ arrayWrites' = IF InterimSaveDue(allScrapedProducts, lastSaveCount)
                      THEN arrayWrites (+) SetToBag({allScrapedProducts})
                      ELSE arrayWrites
  /\ UNCHANGED <<tPc, tQueued, tRunning, tObjectWrites, allScrapedProducts,
                 scrapedProducts, lastSaveCount, allProductsFile, finalSnapshot>>
  /\ interimSaved' = IF InterimSaveDue(allScrapedProducts, lastSaveCount)
                       THEN interimSaved \cup {Len(allScrapedProducts)}
                       ELSE interimSaved
  /\ UNCHANGED notScriptVars

\* An interim write of all_products.json completes; the write of
\* all_products_object.json is issued.
ScriptInterimArrayWritten ==
  /\ tPc = "pipeline"
  /\ \E snapshot \in BagToSet(arrayWrites) :
       /\ allProductsFile' = FileList(snapshot)
       /\ arrayWrites' = arrayWrites (-) SetToBag({snapshot})
  /\ tObjectWrites' = tObjectWrites + 1
  /\ UNCHANGED <<tPc, tQueued, tRunning, tCallbacks, allScrapedProducts,
                 scrapedProducts, lastSaveCount, finalSnapshot>>
  /\ UNCHANGED interimSaved
  /\ UNCHANGED notScriptVars

\* An interim write of all_products_object.json completes and
\* saveAllProductsFiles returns into onSuccess:
\* `lastSaveCount = allScrapedProducts.length`, the length the array has now.
ScriptInterimSaveDone ==
  /\ tPc = "pipeline"
  /\ tObjectWrites > 0
  /\ tObjectWrites' = tObjectWrites - 1
  /\ lastSaveCount' = Len(allScrapedProducts)
  /\ UNCHANGED <<tPc, tQueued, tRunning, tCallbacks, arrayWrites, allScrapedProducts,
                 scrapedProducts, allProductsFile, finalSnapshot>>
  /\ UNCHANGED interimSaved
  /\ UNCHANGED notScriptVars

\* Every unit has settled, with its callbacks: the pipeline returns.
ScriptPipelineSettled == tQueued = 0 /\ ScriptInFlight = 0

\* The pipeline returned and a final save is due: saveAllProductsFiles is
\* called and the write of all_products.json is issued.
ScriptFinalSaveStarts ==
  /\ tPc = "pipeline"
  /\ ScriptPipelineSettled
  /\ FinalSaveDue(scrapedProducts, allScrapedProducts, lastSaveCount)
  /\ finalSnapshot' = allScrapedProducts
  /\ tPc' = "finalArray"
  /\ UNCHANGED <<tQueued, tRunning, tCallbacks, arrayWrites, tObjectWrites,
                 allScrapedProducts, scrapedProducts, lastSaveCount, allProductsFile>>
  /\ UNCHANGED interimSaved
  /\ UNCHANGED notScriptVars

\* The pipeline returned and neither branch of the final-save step calls
\* saveAllProductsFiles.
ScriptFinalSaveSkipped ==
  /\ tPc = "pipeline"
  /\ ScriptPipelineSettled
  /\ ~FinalSaveDue(scrapedProducts, allScrapedProducts, lastSaveCount)
  /\ tPc' = "done"
  /\ UNCHANGED <<tQueued, tRunning, tCallbacks, arrayWrites, tObjectWrites,
                 allScrapedProducts, scrapedProducts, lastSaveCount, allProductsFile,
                 finalSnapshot>>
  /\ UNCHANGED interimSaved
  /\ UNCHANGED notScriptVars

\* The final write of all_products.json completes.
ScriptFinalArrayWritten ==
  /\ tPc = "finalArray"
  /\ allProductsFile' = FileList(finalSnapshot)
  /\ tPc' = "finalObject"
  /\ UNCHANGED <<tQueued, tRunning, tCallbacks, arrayWrites, tObjectWrites,
                 allScrapedProducts, scrapedProducts, lastSaveCount, finalSnapshot>>
  /\ UNCHANGED interimSaved
  /\ UNCHANGED notScriptVars

\* The final write of all_products_object.json completes.
ScriptFinalSaveDone ==
  /\ tPc = "finalObject"
  /\ tPc' = "done"
  /\ UNCHANGED <<tQueued, tRunning, tCallbacks, arrayWrites, tObjectWrites,
                 allScrapedProducts, scrapedProducts, lastSaveCount, allProductsFile,
                 finalSnapshot>>
  /\ UNCHANGED interimSaved
  /\ UNCHANGED notScriptVars

(* ========= scrape-me.js: the product loop and its progress file ======== *)
\* scrape-me.js: `const CONCURRENCY = 3;`
ScrapeMeConcurrency == 3

\* `const PROGRESS_INTERVAL = 5;`
PROGRESS_INTERVAL == 5

SmUnits == 1..smTotal

\* Units holding a slot of the limiter.
SmActive == {i \in SmUnits : smUnit[i] \notin {"queued", "done", "rejected"}}

SmNextQueued(i) == smUnit[i] = "queued" /\ \A j \in SmUnits : j < i => smUnit[j] # "queued"

\* Units whose finally block has closed the page and the context.
SmFinished == {i \in SmUnits : smUnit[i] \in {"writing", "done"}}

\* `productIndex % PROGRESS_INTERVAL === 0 || productIndex === testProducts.length`
ProgressDue(productIndex, total) ==
  productIndex % PROGRESS_INTERVAL = 0 \/ productIndex = total

\* `const currentProgress = { totalProducts: testProducts.length,
\*    processed: productIndex, successCount, failureCount, ... }`
CurrentProgress(productIndex) ==
  [totalProducts |-> smTotal, processed |-> productIndex,
   successCount |-> smSuccessCount, failureCount |-> smFailureCount]

ProgressIdle ==
  /\ smTotal = 0
  /\ smUnit = <<>>
  /\ smSuccessCount = 0
  /\ smFailureCount = 0
  /\ smPending = <<>>
  /\ progressFile = <<>>
  /\ progressWrites = <<>>

\* The product loop is entered with 1..MaxTestProducts product links, every
\* unit queued on the limiter and no progress file in the new session folder.
ProgressInit ==
  /\ smTotal \in 1..MaxTestProducts
  /\ smUnit = [i \in SmUnits |-> "queued"]
  /\ smSuccessCount = 0
  /\ smFailureCount = 0
  /\ smPending = [i \in SmUnits |-> <<>>]
  /\ progressFile = <<>>
  /\ progressWrites = <<>>

\* The limiter starts the unit: `await addHumanLikeDelay()`, then
\* `browser.newContext(...)` and `productContext.newPage()`.
SmUnitStarts(i) ==
  /\ SmNextQueued(i)
  /\ Cardinality(SmActive) < ScrapeMeConcurrency
  /\ smUnit' = [smUnit EXCEPT ![i] = "setup"]
  /\ UNCHANGED <<smTotal, smSuccessCount, smFailureCount, smPending, progressFile,
                 progressWrites>>
  /\ UNCHANGED notProgressVars

\* newContext or newPage rejected, outside the try statement: the unit
\* rejects without counting anything.
SmSetupRaises(i) ==
  /\ smUnit[i] = "setup"
  /\ smUnit' = [smUnit EXCEPT ![i] = "rejected"]
  /\ UNCHANGED <<smTotal, smSuccessCount, smFailureCount, smPending, progressFile,
                 progressWrites>>
  /\ UNCHANGED notProgressVars

\* The page is open: `await adapter.extractProductData(productPage, url)`.
SmSetupDone(i) ==
  /\ smUnit[i] = "setup"
  /\ smUnit' = [smUnit EXCEPT ![i] = "extract"]
  /\ UNCHANGED <<smTotal, smSuccessCount, smFailureCount, smPending, progressFile,
                 progressWrites>>
  /\ UNCHANGED notProgressVars

\* Data extracted, transformed and its product file written:
\* `successCount++; return transformedData;`, through the finally block.
SmUnitSucceeds(i) ==
  /\ smUnit[i] = "extract"
  /\ smSuccessCount' = smSuccessCount + 1
  /\ smUnit' = [smUnit EXCEPT ![i] = "closing"]
  /\ UNCHANGED <<smTotal, smFailureCount, smPending, progressFile, progressWrites>>
  /\ UNCHANGED notProgressVars

\* No data, no transformed data, or an exception caught by the unit's catch
\* block: `failureCount++; return null;`, through the finally block.
SmUnitFails(i) ==
  /\ smUnit[i] = "extract"
  /\ smFailureCount' = smFailureCount + 1
  /\ smUnit' = [smUnit EXCEPT ![i] = "closing"]
  /\ UNCHANGED <<smTotal, smSuccessCount, smPending, progressFile, progressWrites>>
  /\ UNCHANGED notProgressVars

\* `await productPage.close(); await productContext.close();` settled. When
\* progress is due the record is built and serialised at once and
\* fs.writeFile is awaited; otherwise the unit is done.
SmClosed(i) ==
  /\ smUnit[i] = "closing"
  /\ IF ProgressDue(i, smTotal)
       THEN /\ smUnit' = [smUnit EXCEPT ![i] = "writing"]
            /\ smPending' = [smPending EXCEPT ![i] =
                 <<[record |-> CurrentProgress(i),
                    finished |-> Cardinality(SmFinished) + 1]>>]
       ELSE /\ smUnit' = [smUnit EXCEPT ![i] = "done"]
            /\ UNCHANGED smPending
  /\ UNCHANGED <<smTotal, smSuccessCount, smFailureCount, progressFile, progressWrites>>
  /\ UNCHANGED notProgressVars

\* One of the two closes rejected inside the finally block: the unit rejects
\* and writes no progress.
SmCloseRaises(i) ==
  /\ smUnit[i] = "closing"
  /\ smUnit' = [smUnit EXCEPT ![i] = "rejected"]
  /\ UNCHANGED <<smTotal, smSuccessCount, smFailureCount, smPending, progressFile,
                 progressWrites>>
  /\ UNCHANGED notProgressVars

\* fs.writeFile(progressFilePath, ...) resolved: the file holds the record
\* this unit serialised.
SmProgressWritten(i) ==
  /\ smUnit[i] = "writing"
  /\ progressFile' = <<smPending[i][1].record>>
  /\ progressWrites' = Append(progressWrites, smPending[i][1])
  /\ smPending' = [smPending EXCEPT ![i] = <<>>]
  /\ smUnit' = [smUnit EXCEPT ![i] = "done"]
  /\ UNCHANGED <<smTotal, smSuccessCount, smFailureCount>>
  /\ UNCHANGED notProgressVars

\* fs.writeFile rejected: `.catch(err => console.error(...))`, the file is
\* left as it was.
SmProgressWriteFails(i) ==
  /\ smUnit[i] = "writing"
  /\ smPending' = [smPending EXCEPT ![i] = <<>>]
  /\ smUnit' = [smUnit EXCEPT ![i] = "done"]
  /\ UNCHANGED <<smTotal, smSuccessCount, smFailureCount, progressFile, progressWrites>>
  /\ UNCHANGED notProgressVars

(* ========================= specifications ============================= *)
RetryNext == RetryInvoke \/ RetryFnResolves \/ RetryFnRejects \/ RetryDelayElapsed

RetryAlone == RetryInit /\ PipeIdle /\ RunIdle /\ LinksIdle /\ AdapterIdle /\ CategoryIdle /\ ScriptIdle /\ ProgressIdle

RetrySpec == RetryAlone /\ [][RetryNext]_vars

\* Every pending promise of retry() settles and every timer fires.
FairRetrySpec == RetrySpec /\ WF_vars(RetryNext)

PipeNext ==
  \/ PipelineSetup
  \/ PipelineBudgetRejected
  \/ \E u \in Units : StartUnit(u)
  \/ \E u \in Units : NewContextResolves(u)
  \/ \E u \in Units : NewContextRejects(u)
  \/ \E u \in Units : NewPageResolves(u)
  \/ \E u \in Units : NewPageRejects(u)
  \/ \E u \in Units : GotoRejects(u)
  \/ \E u \in Units : GotoRetried(u)
  \/ \E u \in Units : ExtractAndTransformSucceed(u)
  \/ \E u \in Units : TransformReturnsNull(u)
  \/ \E u \in Units : ExtractReturnsNull(u)
  \/ \E u \in Units : ExtractRaises(u)
  \/ \E u \in Units : OnSuccessReturns(u)
  \/ \E u \in Units : OnSuccessRaises(u)
  \/ \E u \in Units : OnFailureReturns(u)
  \/ \E u \in Units : OnFailureRaises(u)
  \/ \E u \in Units : PageClosed(u)
  \/ \E u \in Units : ContextClosed(u)
  \/ \E u \in Units : OnProgressReturns(u)
  \/ \E u \in Units : OnProgressRaises(u)
  \/ PipelineReturns
  \/ PipelineRejects

PipelineAlone == PipeInit /\ RetryIdle /\ RunIdle /\ LinksIdle /\ AdapterIdle /\ CategoryIdle /\ ScriptIdle /\ ProgressIdle

PipelineSpec == PipelineAlone /\ [][PipeNext]_vars

\* Every promise a unit awaits settles, every timer fires, and Promise.all
\* settles; which way a promise settles is not constrained.
FairPipelineSpec ==
  /\ PipelineSpec
  /\ \A u \in 1..NumUrls : WF_vars(u \in Units /\ UnitStep(u))
  /\ WF_vars(PipelineSetup \/ PipelineBudgetRejected)
  /\ WF_vars(PipelineReturns \/ PipelineRejects)

RunNext ==
  \/ ConstructScraper
  \/ ConstructScraperFails
  \/ LoadScript
  \/ LoadScriptFails
  \/ RunAgain
  \/ RunNoCategory
  \/ RunLoadCache
  \/ RunLaunch
  \/ RunLaunchFails
  \/ RunCollect
  \/ RunCollectRaises
  \/ \E i \in KUnits : SkipCached(i)
  \/ \E i \in KUnits : StartProduct(i)
  \/ \E i \in KUnits : ProductPageOpens(i)
  \/ \E i \in KUnits : ProductPageFails(i)
  \/ \E i \in KUnits : ExtractThenInsert(i)
  \/ \E i \in KUnits : ExtractThenSaveRefused(i)
  \/ \E i \in KUnits : ExtractReturnsNoData(i)
  \/ \E i \in KUnits : ExtractThrows(i)
  \/ \E i \in KUnits : InsertSucceeds(i)
  \/ \E i \in KUnits : InsertFails(i)
  \/ \E i \in KUnits : ProductPageCloses(i)
  \/ \E i \in KUnits : ProductPageCloseFails(i)
  \/ \E i \in KUnits : ProductDelayElapsed(i)
  \/ RunAllSettled
  \/ RunSaveCache
  \/ RunSaveCacheFails
  \/ RunClose

RunAlone == RunInit /\ RetryIdle /\ PipeIdle /\ LinksIdle /\ AdapterIdle /\ CategoryIdle /\ ScriptIdle /\ ProgressIdle

RunSpec == RunAlone /\ [][RunNext]_vars

\* The whole model: one component runs, the others are idle.
LinksNext ==
  \/ FirstPageExtracted
  \/ FirstPageEmpty
  \/ FirstPageRaises
  \/ ReloadResolves
  \/ ReloadRejects
  \/ NextPageAdvances
  \/ NextPageEnds
  \/ NextPageRaises
  \/ NewPageExtracted
  \/ NewPageExtractRaises

LinksAlone == LinksInit /\ RetryIdle /\ PipeIdle /\ RunIdle /\ AdapterIdle /\ CategoryIdle /\ ScriptIdle /\ ProgressIdle

LinksSpec == LinksAlone /\ [][LinksNext]_vars

\* Every awaited adapter call, reload and delay of a collector settles, so a
\* collector that can take a step takes one.
FairLinksSpec == LinksSpec /\ WF_vars(LinksNext)

AdapterNext ==
  \/ GetAdapterReturns
  \/ GetAdapterThrows
  \/ CategoryNavigationFails
  \/ CategoryPageLoads
  \/ TransformCalled
  \/ LoadCacheCalled

AdapterAlone ==
  AdapterInit /\ RetryIdle /\ PipeIdle /\ RunIdle /\ LinksIdle /\ CategoryIdle /\ ScriptIdle /\ ProgressIdle

AdapterSpec == AdapterAlone /\ [][AdapterNext]_vars

CategoryNext ==
  \/ CategoryExtracts
  \/ CategoryExtractRaises
  \/ CategoryNextAdvances
  \/ CategoryNextEnds
  \/ CategoryNextRaises

CategoryAlone ==
  CategoryInit /\ RetryIdle /\ PipeIdle /\ RunIdle /\ LinksIdle /\ AdapterIdle /\ ScriptIdle /\ ProgressIdle

CategorySpec == CategoryAlone /\ [][CategoryNext]_vars

\* Every promise the loop awaits settles.
FairCategorySpec == CategorySpec /\ WF_vars(CategoryNext)

ScriptNext ==
  \/ ScriptUnitStarts
  \/ ScriptUnitFails
  \/ ScriptUnitSucceeds
  \/ ScriptProductFileWritten
  \/ ScriptInterimArrayWritten
  \/ ScriptInterimSaveDone
  \/ ScriptFinalSaveStarts
  \/ ScriptFinalSaveSkipped
  \/ ScriptFinalArrayWritten
  \/ ScriptFinalSaveDone

ScriptAlone ==
  ScriptInit /\ RetryIdle /\ PipeIdle /\ RunIdle /\ LinksIdle /\ AdapterIdle /\ CategoryIdle /\ ProgressIdle

ScriptSpec == ScriptAlone /\ [][ScriptNext]_vars

ProgressNext ==
  \E i \in SmUnits :
    \/ SmUnitStarts(i)
    \/ SmSetupRaises(i)
    \/ SmSetupDone(i)
    \/ SmUnitSucceeds(i)
    \/ SmUnitFails(i)
    \/ SmClosed(i)
    \/ SmCloseRaises(i)
    \/ SmProgressWritten(i)
    \/ SmProgressWriteFails(i)

ProgressAlone ==
  /\ ProgressInit /\ RetryIdle /\ PipeIdle /\ RunIdle /\ LinksIdle /\ AdapterIdle
  /\ CategoryIdle /\ ScriptIdle

ProgressSpec == ProgressAlone /\ [][ProgressNext]_vars

Init ==
  \/ RetryAlone
  \/ PipelineAlone
  \/ RunAlone
  \/ LinksAlone
  \/ AdapterAlone
  \/ CategoryAlone
  \/ ScriptAlone
  \/ ProgressAlone

Next ==
  RetryNext \/ PipeNext \/ RunNext \/ LinksNext \/ AdapterNext \/ CategoryNext \/ ScriptNext
    \/ ProgressNext

Spec == Init /\ [][Next]_vars

(* ============================ properties ============================== *)
\* Pipeline half of C1: the browser contexts the pipeline has open never
\* outnumber the adapter's concurrency.
PipelineContextBound ==
  (pipePc # "idle" /\ PLimitAccepts(concurrency)) =>
     Cardinality(openContexts) <= concurrency

\* C1: the number of browser contexts the pipeline has opened and not closed
\* never exceeds its concurrency, and the number of product pages open in
\* FurnitureScraper.run never exceeds maxConcurrentRequests.
C1_ConcurrencyBound ==
  /\ PLimitAccepts(concurrency) => Cardinality(openContexts) <= concurrency
  /\ Cardinality(productPages) <= maxConcurrentRequests

\* C2: the pipeline eventually returns with every submitted unit completed
\* and reported through onProgress (callbacks that never raise), whatever
\* page.goto does.
C2_PipelineReturns ==
  PLimitAccepts(concurrency) =>
  <>(\/ cbRaised
     \/ /\ pipePc = "returned"
        /\ completedCount = Len(urlsToProcess)
        /\ Len(progressLog) = Len(urlsToProcess))

\* C3: retry(fn) called without a retries argument, with fn failing on every
\* call, eventually rethrows (so fn is invoked finitely often).
C3_RetryBounded ==
  (rArg = JsUndefined /\ rFails = -1) => <>(rPc = "threw")

\* Retry with an explicit budget k >= 1 invokes fn at most k times.
RetryExplicitBudgetBounded ==
  (rArg.t = "num" /\ rArg.n >= 1 /\ rArg.n < MaxCalls) => rCalls <= rArg.n

\* C4: the pipeline never rejects because of a unit's session creation,
\* extraction or transform outcome (only a raising callback makes a unit
\* reject), and once every unit is done it returns its list, every URL having
\* been processed.
C4_NeverRejectsOnUnitFailure ==
  /\ \A u \in Units : uError[u] => cbRaised
  /\ (pipePc = "rejected" /\ PLimitAccepts(concurrency)) => cbRaised
  /\ (pipePc = "running" /\ ~cbRaised /\ \A u \in Units : uPc[u] = "done")
        => ENABLED PipelineReturns
  /\ pipePc = "returned" =>
        \A u \in Units : uPc[u] = "done" /\ Len(cbCalls[u]) >= 1

\* C4 witness: the pipeline returned a non-empty list although one unit's
\* session creation or extraction raised.
C4_Witness ==
  /\ pipePc = "returned"
  /\ returned # <<>>
  /\ \E u \in Units : cbCalls[u] # <<>> /\ cbCalls[u][1].cb = "onFailure"
                      /\ cbCalls[u][1].msg = "error"

\* Units whose extraction and transform succeeded.
Transformed == Range(transformOrder)

\* C5: with callbacks that do not raise, every submitted URL gets exactly one
\* outcome callback, onSuccess iff its extraction and transform succeeded,
\* carrying its URL and its 1-based position; the returned list has one
\* record per onSuccess call.
C5_ExactlyOneOutcomeCallback ==
  ~cbRaised =>
    /\ \A u \in Units : Len(cbCalls[u]) <= 1
    /\ \A u \in Units : uPc[u] \in {"closePage", "closeContext", "onProgress", "done"}
          => /\ Len(cbCalls[u]) = 1
             /\ cbCalls[u][1].index = u
             /\ cbCalls[u][1].url = productUrls[u]
             /\ cbCalls[u][1].cb = (IF u \in Transformed THEN "onSuccess" ELSE "onFailure")
    /\ pipePc = "returned" =>
          Len(returned) = Cardinality({u \in Units : cbCalls[u][1].cb = "onSuccess"})

\* C5 witness: a returned run of at least two URLs, callbacks never raising,
\* with one success and one failure.
C5_Witness ==
  /\ pipePc = "returned"
  /\ ~cbRaised
  /\ \E u, v \in Units : /\ cbCalls[u][1].cb = "onSuccess"
                         /\ cbCalls[v][1].cb = "onFailure"

\* C6: the returned list holds the records in the order their units completed
\* the transform, and no record of a unit whose extraction or transform failed.
C6_CompletionOrder ==
  pipePc = "returned" =>
    /\ returned = [k \in 1..Len(transformOrder) |->
                     TransformedData(urlsToProcess[transformOrder[k]])]
    /\ \A u \in Units : u \notin Transformed
          => TransformedData(urlsToProcess[u]) \notin Range(returned)

\* C6 witness: the pipeline returned two records in an order that is not the
\* submission order.
C6_Witness ==
  /\ pipePc = "returned"
  /\ Len(returned) >= 2
  /\ transformOrder[1] > transformOrder[2]

C8_CacheSkip ==
  /\ \A url \in Range(loadedCache) :
        /\ url \notin pagesOpened
        /\ url \notin extractCalls
        /\ inserts[url] = <<>>
  /\ runPc \in {"save", "close", "returned"} /\ productLinks # <<>> =>
        stats.skippedCount =
          Cardinality({i \in KUnits : productLinks[i] \in Range(loadedCache)})

\* C8 witness: a finished run whose links held a cached URL (skipped) and an
\* uncached URL that was extracted.
C8_Witness ==
  /\ runPc = "returned"
  /\ stats.skippedCount >= 1
  /\ extractCalls # {}

\* URLs whose extraction, transform and insert all succeeded in this run.
Succeeded == {url \in LinkUrls : "ok" \in Range(inserts[url])}

\* C9: when the run completes, the persisted cache is the loaded cache united
\* with the URLs that succeeded in this run.
C9_PersistedCache ==
  (runPc = "returned" /\ ~runError) =>
    /\ cacheFile.kind = "list"
    /\ Range(cacheFile.items) = Range(loadedCache) \cup Succeeded

\* C9 witness: a completed run that loaded a non-empty cache, succeeded on one
\* URL and failed on another.
C9_Witness ==
  /\ runPc = "returned"
  /\ ~runError
  /\ loadedCache # <<>>
  /\ Succeeded # {}
  /\ stats.errorCount >= 1

\* C10: no URL gets more than one storage insert in a run, and the URLs
\* counted in successCount (those added to the cache) are exactly the URLs
\* whose single insert reported success.
C10_OneSuccessfulInsert ==
  /\ \A url \in LinkUrls : Len(inserts[url]) <= 1
  /\ runPc # "idle" =>
       /\ stats.successCount = Cardinality({url \in LinkUrls : inserts[url] = <<"ok">>})
       /\ runPc \notin {"start"} =>
            Range(crawledCache) \ Range(loadedCache)
               = {url \in LinkUrls : inserts[url] = <<"ok">>}

\* C10 witness: a finished run with a success and a failed insert.
C10_Witness ==
  /\ runPc = "returned"
  /\ stats.successCount >= 1
  /\ \E url \in LinkUrls : inserts[url] = <<"error">>

\* C11: a storage write failure is a failure of its URL only. In run a URL
\* whose insert failed is not added to the cache and not counted in
\* successCount; in the pipeline a unit whose onSuccess callback (the sink)
\* raised is counted in failureCount and not in successCount, and its record
\* is not in the returned list.
C11_SinkFailureIsFailureOnly ==
  /\ \A url \in LinkUrls : inserts[url] = <<"error">> =>
        url \notin Range(crawledCache) \ Range(loadedCache)
  /\ runPc # "idle" =>
        stats.successCount = Cardinality({url \in LinkUrls : inserts[url] = <<"ok">>})
  /\ pipePc = "returned" =>
        /\ successCount = Cardinality({u \in Units :
              cbCalls[u][Len(cbCalls[u])].cb = "onSuccess"})
        /\ \A u \in Units : cbCalls[u][Len(cbCalls[u])].cb = "onFailure" =>
              TransformedData(urlsToProcess[u]) \notin Range(returned)

\* The second of two consecutive runs never extracts or inserts a URL the
\* first run counted as a success.
RerunSkipsSuccesses ==
  runNo = 2 =>
    \A url \in prevSuccess : url \notin extractCalls /\ inserts[url] = <<>>

\* The second run attempts again every collected URL the first run counted
\* as an error and not as a success.
RerunRetriesPureErrors ==
  (runNo = 2 /\ runPc \in {"save", "close", "returned"}) =>
    \A url \in prevError \ prevSuccess :
       url \in Range(productLinks) => url \in pagesOpened

\* C12: over two consecutive completed runs on the same cache file, the
\* second run never extracts or inserts a URL the first run counted as a
\* success, and once its units are done it has attempted (opened a page for)
\* every collected URL the first run counted as an error.
C12_IncrementalRerun ==
  runNo = 2 =>
    /\ \A url \in prevSuccess : url \notin extractCalls /\ inserts[url] = <<>>
    /\ runPc \in {"save", "close", "returned"} =>
         \A url \in prevError :
            url \in Range(productLinks) => url \in pagesOpened

\* A list without a repeated element.
NoRepeats(list) == \A i, j \in 1..Len(list) : i # j => list[i] # list[j]

\* The collectors that pass their list through a Set return it without
\* repeats, one entry per distinct URL extracted.
DedupCollectorsUnique ==
  (lPc = "returned" /\ collector # "sequential") =>
     NoRepeats(uniqueLinks) /\ Len(uniqueLinks) = Cardinality(found)

\* C13: whatever link lists the adapter returns, every collector returns a
\* list without a repeated URL whose length is the number of distinct URLs
\* extracted.
C13_CollectedLinksUnique ==
  lPc = "returned" =>
     NoRepeats(uniqueLinks) /\ Len(uniqueLinks) = Cardinality(found)

\* The number of pages a collector is to process: the smaller of maxPages
\* and the page on which goToNextPage first returned false.
PagesToProcess == IF falseAt # 0 THEN Min(maxPages, falseAt) ELSE maxPages

\* C14: when no adapter call raised and the first page yielded a link at the
\* first attempt, extractProductLinks (scrape-me.js, test-1stdibs.js) returns
\* exactly the distinct links of pages 1..k, each once, and has extracted
\* exactly k pages, k being the smaller of maxPages and the page on which
\* goToNextPage first returned false.
C14_CollectsPagesOneToK ==
  (/\ lPc = "returned"
   /\ collector \in {"scrape-me", "test-1stdibs"}
   /\ ~adapterRaised
   /\ retryCount = 0) =>
     /\ Range(uniqueLinks) = found
     /\ NoRepeats(uniqueLinks)
     /\ pagesExtracted = PagesToProcess
     /\ currentPage = PagesToProcess

\* C14 witness: scrape-me.js returned the two links of two pages of one new
\* link each, stopping at maxPages although goToNextPage never returned false.
C14_Witness ==
  /\ lPc = "returned"
  /\ collector = "scrape-me"
  /\ ~adapterRaised
  /\ retryCount = 0
  /\ falseAt = 0
  /\ pagesExtracted = 2
  /\ Len(allLinks) = 2
  /\ Len(uniqueLinks) = 2

\* C15: a collector given a page limit never accumulates the links of more
\* than maxPages pages and never advances the listing (goToNextPage returning
\* true) more than maxPages - 1 times, whatever the adapter does.
C15_PageLimit ==
  (lPc # "idle" /\ maxPages # NoPageLimit) =>
     /\ pagesExtracted <= maxPages
     /\ advances <= maxPages - 1
     /\ currentPage <= maxPages

\* C15 witness: scrape-me.js with maxPages = 3 advanced to page 2, the
\* extraction of page 2 raised, it advanced again, accumulated page 3 and
\* returned.
C15_Witness ==
  /\ lPc = "returned"
  /\ collector = "scrape-me"
  /\ maxPages = 3
  /\ adapterRaised
  /\ advances = 2
  /\ nextCalls = 2
  /\ extractAttempts = 3
  /\ pagesExtracted = 2

\* C16: while no first-page attempt of scrape-me.js's extractProductLinks has
\* yielded a link (each returned an empty list or raised, reloads raising or
\* not), it has made at most NAVIGATION_RETRY_COUNT extraction attempts, has
\* never called goToNextPage and has not raised; when it returns, it returns
\* the empty list, its retries being spent.
C16_FirstPageGivesUp ==
  (collector = "scrape-me" /\ lPc # "idle" /\ pagesExtracted = 0) =>
     /\ extractAttempts <= NAVIGATION_RETRY_COUNT
     /\ nextCalls = 0
     /\ lPc \in {"first", "reload", "returned"}
     /\ lPc = "returned" =>
          uniqueLinks = <<>> /\ retryCount >= NAVIGATION_RETRY_COUNT

\* C16 witness: three attempts, at least one raising call among them and their
\* reloads, no link ever found, and the empty list returned.
C16_Witness ==
  /\ collector = "scrape-me"
  /\ lPc = "returned"
  /\ pagesExtracted = 0
  /\ extractAttempts = NAVIGATION_RETRY_COUNT
  /\ adapterRaised
  /\ uniqueLinks = <<>>

\* C17: once the scraper is constructed, a category is determined and the
\* browser is launched, FurnitureScraper.run does not raise: it returns its
\* statistics, also when link collection raises, when every unit fails and
\* when the cache file cannot be written.
C17_RunReturnsSummary ==
  (entry = "run" /\ engine = "launched") => runPc # "rejected"

\* With the browser launched, run() returns its statistics when every product
\* unit has failed.
RunSurvivesUnitFailures ==
  (entry = "run" /\ engine = "launched" /\ runPc = "rejected") => runError

\* A configuration error: the retailer is unknown, or no category URL is
\* configured and the adapter has no category.
ConfigurationError == retailer = "unknown" \/ categoryUrl = "none"

\* C18: with a configuration error the constructor or run() raises before
\* chromium.launch, newContext or newPage is called and before the cache
\* file is written; run() gets no further than its category check.
C18_ConfigErrorBeforeEngine ==
  (runPc # "idle" /\ ConfigurationError) =>
     /\ runPc \in {"construct", "start", "rejected"}
     /\ retailer = "unknown" => runPc \in {"construct", "rejected"}
     /\ engine = "none"
     /\ ~browserOpen
     /\ pagesOpened = {}
     /\ ~cacheWritten

\* C18 witness: a scraper for a known retailer was constructed and its run()
\* raised for want of a category.
C18_Witness ==
  /\ runPc = "rejected"
  /\ retailer = "known"
  /\ categoryUrl = "none"
  /\ maxConcurrentRequests >= 1

\* C19: given an empty URL list, the pipeline creates no browser context and
\* no page, invokes none of onSuccess, onFailure and onProgress, does not
\* reject, and returns the empty list.
C19_EmptyListNoBrowser ==
  (productUrls = <<>> /\ PLimitAccepts(concurrency)) =>
     /\ openContexts = {}
     /\ openPages = {}
     /\ cbCalls = <<>>
     /\ progressLog = <<>>
     /\ pipePc # "rejected"
     /\ pipePc = "running" => ENABLED PipelineReturns
     /\ pipePc = "returned" => returned = <<>>

\* C19 witness: the pipeline was called with an empty list and returned.
C19_Witness ==
  /\ pipePc = "returned"
  /\ productUrls = <<>>
  /\ returned = <<>>

\* The pipeline half of C20: with a concurrency <= 0 the pipeline rejects
\* and no unit is ever started.
PipelineRejectsBadBudget ==
  (pipePc \notin {"idle", "called"} /\ concurrency <= 0) =>
     /\ pipePc = "rejected"
     /\ \A u \in Units : uPc[u] = "queued"

\* C20: a worker budget <= 0 is rejected before any URL is processed: the
\* pipeline of an adapter built with concurrency <= 0 rejects with no unit
\* started, and a FurnitureScraper configured with maxConcurrentRequests <= 0
\* fails in its constructor instead of running.
C20_BadBudgetRejected ==
  /\ (pipePc \notin {"idle", "called"} /\ concurrency <= 0) =>
        /\ pipePc = "rejected"
        /\ \A u \in Units : uPc[u] = "queued"
  /\ (entry = "run" /\ runPc \notin {"idle", "construct"} /\ configMax <= 0) =>
        runPc = "rejected" /\ engine = "none"

-----------------------------------------------------------------------------
\* Browser contexts of the product units.

\* processProductsWithConcurrency: every unit runs
\* `const context = await browser.newContext({...})` itself, so the context
\* of unit u is an object of its own.
PipeContextOf(u) == <<"unit context", u>>

\* FurnitureScraper.run: `const context = await browser.newContext({...})`
\* is executed once, before productLinks.map, and every unit calls
\* `context.newPage()` on that one object.
RunContextOf(i) == <<"run context">>

\* Product units of the run that are using their context: from the call of
\* context.newPage() until the page is closed.
KUsingContext == {i \in KUnits : kPc[i] \in {"newPage", "extract", "insert", "close"}}

\* The pipeline half of C21: units of processProductsWithConcurrency whose
\* context is open never share it.
PipelineContextsIsolated ==
  \A u, v \in openContexts : u # v => PipeContextOf(u) # PipeContextOf(v)

\* C21: no two product units that are in flight at the same time use the
\* same browser context, in processProductsWithConcurrency and in
\* FurnitureScraper.run alike.
C21_UnitsHaveOwnContext ==
  /\ \A u, v \in openContexts : u # v => PipeContextOf(u) # PipeContextOf(v)
  /\ \A i, j \in KUsingContext : i # j => RunContextOf(i) # RunContextOf(j)

-----------------------------------------------------------------------------
\* The adapters other than the 1stDibs one keep the two outcomes of
\* extractProductLinksFromCategory apart.
OtherAdaptersRaiseOnNavigationFailure ==
  (lastCall.method = "extractProductLinksFromCategory" /\ adapter # "FirstDibsAdapter") =>
     (lastCall.outcome.raised <=> ~lastCall.arg.loaded)

\* C22: for every adapter, extractProductLinksFromCategory returns an empty
\* list without raising when the category page loads and lists no product,
\* and raises when the navigation to the category URL fails.
C22_NavigationFailureRaises ==
  lastCall.method = "extractProductLinksFromCategory" =>
     /\ (lastCall.arg.loaded /\ lastCall.arg.links = <<>>) =>
           (~lastCall.outcome.raised /\ lastCall.outcome.value = <<>>)
     /\ ~lastCall.arg.loaded => lastCall.outcome.raised

\* C23: for every adapter, transformProductData returns null for a raw
\* record without a resolvable identifier (productId absent, undefined or
\* empty), never a record whose product_id is empty or undefined.
C23_NoIdentifierGivesNull ==
  (/\ lastCall.method = "transformProductData"
   /\ lastCall.arg # NullValue
   /\ ~FieldTruthy(lastCall.arg, "productId")) =>
     lastCall.outcome.value = NullValue

CapturedProperties ==
  {"jsonLd", "url", "slug", "productId", "name", "price", "description", "imageUrl",
   "specifications"}

\* Property f of the raw record r can be read back from raw_data: raw_data
\* has it with the same value, or raw_data is the structured-data blob itself.
Recoverable(raw, r, f) ==
  \/ f \in DOMAIN raw /\ raw[f] = r[f]
  \/ f = "jsonLd" /\ raw = r[f]

\* The 1stDibs half of C25: the spread copy keeps every property.
FirstDibsRawDataLossless ==
  (/\ lastCall.method = "transformProductData"
   /\ adapter = "FirstDibsAdapter"
   /\ lastCall.arg # NullValue) =>
     \A f \in DOMAIN lastCall.arg : Recoverable(lastCall.outcome.value.raw_data, lastCall.arg, f)

\* C25: for every adapter and every raw record transformProductData accepts,
\* every captured property of the record is recoverable from the raw_data of
\* the result, and the result of a manual extraction carries
\* extractionMethod "manual" in raw_data.
C25_RawDataLossless ==
  (/\ lastCall.method = "transformProductData"
   /\ lastCall.arg # NullValue
   /\ lastCall.outcome.value # NullValue) =>
     LET r == lastCall.arg
         raw == lastCall.outcome.value.raw_data
     IN /\ \A f \in DOMAIN r \cap CapturedProperties : Recoverable(raw, r, f)
        /\ (FieldTruthy(r, "manualExtraction") /\ ~FieldTruthy(r, "jsonLd")) =>
              ("extractionMethod" \in DOMAIN raw /\ raw.extractionMethod = "manual")

\* The identifiers the switch of getAdapter knows, in lower case.
KnownRetailerIds == {ToLowerCase(GetSupportedRetailers[i]) : i \in 1..Len(GetSupportedRetailers)}

\* C26: getAdapter matches the identifier case-insensitively: for every
\* casing of 'ikea', 'wayfair', 'article' and '1stdibs' it returns an adapter
\* whose getRetailerName() equals the identifier ignoring case, and for every
\* other string it throws an 'Unsupported retailer' error and returns no adapter.
C26_CaseInsensitiveFactory ==
  aPc \notin {"idle", "start"} =>
     IF ToLowerCase(retailerId) \in KnownRetailerIds
       THEN /\ adapter \in AdapterClasses
            /\ ToLowerCase(GetRetailerName(adapter)) = ToLowerCase(retailerId)
            /\ factoryError = NoError
       ELSE /\ aPc = "unsupported"
            /\ adapter = NoAdapter
            /\ factoryError.text = "Unsupported retailer: "

\* C26 witness: getAdapter('IKEA') returned the IKEA adapter.
C26_Witness ==
  /\ aPc = "ready"
  /\ retailerId = IKEA
  /\ adapter = "IkeaAdapter"

\* C27: the error getAdapter throws for an unknown identifier names the
\* rejected identifier and every retailer getSupportedRetailers() returns.
C27_ErrorListsSupported ==
  aPc = "unsupported" =>
     /\ retailerId \in Range(factoryError.values)
     /\ \A i \in 1..Len(GetSupportedRetailers) :
           GetSupportedRetailers[i] \in Range(factoryError.values)

\* The half of C27 that holds: the error names the rejected identifier.
ErrorNamesRejectedIdentifier ==
  aPc = "unsupported" => factoryError = UnsupportedRetailerError(retailerId)

\* For a cache file that holds a JSON list, loadCache returns the set of
\* its entries.
LoadCacheReadsLists ==
  (lastCall.method = "loadCache" /\ lastCall.arg.kind = "list") =>
     /\ ~lastCall.outcome.raised
     /\ Range(lastCall.outcome.value) = Range(lastCall.arg.items)
     /\ NoRepeats(lastCall.outcome.value)

\* C28: loadCache never raises; it returns the empty set when the cache file
\* is missing, unreadable or holds anything other than a JSON list of URLs
\* (invalid JSON, or a JSON string, number or object), and otherwise exactly
\* the set of the URLs in the file.
C28_LoadCacheTotal ==
  lastCall.method = "loadCache" =>
     /\ ~lastCall.outcome.raised
     /\ IF lastCall.arg.kind = "list"
          THEN /\ Range(lastCall.outcome.value) = Range(lastCall.arg.items)
               /\ NoRepeats(lastCall.outcome.value)
          ELSE lastCall.outcome.value = <<>>

\* Each extraction reads the listing page the loop has advanced to.
ExtractsAdvancedPage == cPc = "next" => extractedPage = advancedTo

\* On a category of two or more pages the loop never returns: every
\* extraction navigates back to the first page, whose "Next" button is visible.
MultiPageCategoryNeverReturns == sitePages >= 2 => cPc # "returned"

\* C29: getAllProductLinksFromCategory terminates on every category with
\* finitely many pages: with an adapter whose extraction navigates to url
\* and whose goToNextPage returns false on the last page, the loop reaches
\* the last page and ends.
C29_CategoryLoopEnds == <>(cPc \in {"returned", "rejected"})

\* C30: once the pipeline has returned and the final-save step has run,
\* all_products.json holds every product appended to allScrapedProducts,
\* whatever the interleaving of the onSuccess callbacks and the interim saves.
C30_FinalFileHoldsAllProducts ==
  tPc = "done" => allProductsFile = FileList(allScrapedProducts)

\* As long as no interim save was started while products were still being
\* appended, the final save writes them all.
FinalSaveWritesCurrentList ==
  (tPc = "done" /\ lastSaveCount = 0) => allProductsFile = FileList(allScrapedProducts)

-----------------------------------------------------------------------------
\* The sum of the three outcome counters of the run.
CountedOutcomes == stats.successCount + stats.errorCount + stats.skippedCount

\* Once the units have all settled, no collected URL is left uncounted.
EveryUrlCounted ==
  (runPc \in {"save", "close", "returned"} /\ ~runError) =>
     CountedOutcomes >= stats.totalProducts

\* C31: when FurnitureScraper.run (and main of index.js) returns,
\* totalProducts = successCount + errorCount + skippedCount: every collected
\* URL is counted in exactly one counter, whatever happens to its unit.
C31_CountersPartitionUrls ==
  (runPc = "returned" /\ ~runError) => stats.totalProducts = CountedOutcomes

\* A unit that closed its page, or never opened one, leaves none behind.
ClosedPagesStayClosed ==
  \A i \in KUnits : (kPc[i] = "done" /\ productLinks[i] \notin erroredUrls) => i \notin productPages

\* C32: in FurnitureScraper.run every product page opened for a unit is
\* closed by the time the unit finishes, on every exit path, also when
\* extractProductData raises: a finished unit has no page open.
C32_FinishedUnitHasNoPage ==
  \A i \in KUnits : kPc[i] = "done" => i \notin productPages

\* The completedCount half of C33: with callbacks that do not raise, the
\* k-th progress report carries completed = k, and at return completedCount
\* is the number of URLs processed.
CompletedCountsInOrder ==
  ~cbRaised =>
     /\ \A k \in 1..Len(progressLog) : progressLog[k].completed = k
     /\ pipePc = "returned" =>
           completedCount = Len(urlsToProcess) /\ Len(progressLog) = Len(urlsToProcess)

\* C33: no counter update of processProductsWithConcurrency is lost: with
\* callbacks that do not raise, the completed values passed to onProgress
\* are 1, 2, ..., n in invocation order, every progress report satisfies
\* success + failure = completed, and at return completed equals the number
\* of URLs processed.
C33_ProgressCountersConsistent ==
  ~cbRaised =>
     /\ \A k \in 1..Len(progressLog) :
           /\ progressLog[k].completed = k
           /\ progressLog[k].success + progressLog[k].failure = progressLog[k].completed
     /\ pipePc = "returned" => completedCount = Len(urlsToProcess)

\* The multiples of SAVE_INTERVAL the number of collected products has reached.
MultiplesReached ==
  {k \in 1..Len(allScrapedProducts) : k % SAVE_INTERVAL = 0}

\* An interim save is only ever started for a multiple of SAVE_INTERVAL.
InterimSavesAtMultiples == \A k \in interimSaved : k % SAVE_INTERVAL = 0

\* C34: whenever the number of products collected through onSuccess reaches
\* a multiple of SAVE_INTERVAL, an interim save of the all-products files is
\* performed for that multiple: once the callbacks have all returned, every
\* multiple that was reached has had its interim save.
C34_InterimSaveAtEveryMultiple ==
  tPc \in {"finalArray", "finalObject", "done"} => MultiplesReached \subseteq interimSaved

\* Every unit of the scrape-me.js product loop has finished normally.
SmAllDone == smTotal > 0 /\ \A i \in SmUnits : smUnit[i] = "done"

\* Once every unit has finished the two counters add up to the number of
\* products, whatever the file holds.
SmCountersAddUp == SmAllDone => smSuccessCount + smFailureCount = smTotal

\* C35: the progress record left in progress_all_products.json once every
\* unit has finished reports processed = totalProducts and successCount +
\* failureCount = totalProducts, and every progress record written reports
\* as processed the number of units finished when it was built, under every
\* completion order.
C35_ProgressFileFinal ==
  /\ (SmAllDone /\ progressFile # <<>>) =>
        /\ progressFile[1].processed = progressFile[1].totalProducts
        /\ progressFile[1].successCount + progressFile[1].failureCount
             = progressFile[1].totalProducts
  /\ \A k \in 1..Len(progressWrites) :
        progressWrites[k].record.processed = progressWrites[k].finished

\* extractProductLinks of scrape-me.js was called with a finite maxPages.
ScrapeMeFinite == collector = "scrape-me" /\ maxPages # NoPageLimit

\* While extractProductLinks of scrape-me.js is on its first page every
\* extraction attempt is a first-page attempt: there are at most
\* NAVIGATION_RETRY_COUNT of them. In the pagination loop
\* navigationRetryCount is the number of goToNextPage attempts already made
\* for the current step, so the attempt about to be made is at most the
\* NAVIGATION_RETRY_COUNT-th.
ScrapeMeAttemptsBounded ==
  ScrapeMeFinite =>
    /\ advances = 0 => extractAttempts <= NAVIGATION_RETRY_COUNT
    /\ lPc = "next" => navigationRetryCount + 1 <= NAVIGATION_RETRY_COUNT
    /\ navigationRetryCount <= NAVIGATION_RETRY_COUNT

\* C36: extractProductLinks of scrape-me.js terminates for every finite
\* maxPages and every adapter behaviour: it makes at most
\* NAVIGATION_RETRY_COUNT first-page attempts and, per pagination step, at
\* most NAVIGATION_RETRY_COUNT goToNextPage attempts, and it returns.
C36_ScrapeMeCollectorTerminates ==
  /\ []ScrapeMeAttemptsBounded
  /\ ScrapeMeFinite ~> (lPc = "returned")

\* The first page needed every retry but the last, the listing was followed
\* to its second page and goToNextPage then raised NAVIGATION_RETRY_COUNT
\* times before the collector returned.
C36_Witness ==
  /\ ScrapeMeFinite
  /\ lPc = "returned"
  /\ retryCount = NAVIGATION_RETRY_COUNT - 1
  /\ advances = 1
  /\ navigationRetryCount = NAVIGATION_RETRY_COUNT
  /\ nextCalls = NAVIGATION_RETRY_COUNT + 1

\* extractProductLinks of scrape-me.js gave up on the first page.
ScrapeMeGaveUp == collector = "scrape-me" /\ lPc = "returned" /\ pagesExtracted = 0

\* Giving up takes at least two and at most NAVIGATION_RETRY_COUNT
\* extraction attempts.
GiveUpAfterTwoOrThreeAttempts ==
  ScrapeMeGaveUp => extractAttempts \in 2..NAVIGATION_RETRY_COUNT

\* C37: in extractProductLinks of scrape-me.js every first-page attempt that
\* finds no links or raises consumes exactly one unit of the retry budget
\* (retryCount equals the number of failed attempts), also when a page
\* reload raises, so the collector gives up only after exactly
\* NAVIGATION_RETRY_COUNT extraction attempts.
C37_OneRetryUnitPerAttempt ==
  /\ (collector = "scrape-me" /\ pagesExtracted = 0 /\ lPc \in {"first", "returned"})
        => retryCount = extractAttempts
  /\ ScrapeMeGaveUp => extractAttempts = NAVIGATION_RETRY_COUNT

\* saveCache has resolved in this run.
CacheSaved == runPc \in {"close", "returned"} /\ cacheWritten /\ ~runError

=============================================================================
